---- MODULE Spec2Model ----
(***************************************************************************)
(* Model of the chat gateway of backend/sockets/chat.js (the distributed   *)
(* variant: Kafka bus, Redis cache, Socket.IO with the Redis adapter).     *)
(* Every handler is cut at its await points: one action per segment        *)
(* between two awaits, the handler's locals kept in a task record.         *)
(***************************************************************************)
EXTENDS Integers, Sequences, FiniteSets, TLC

\* ---------------------------------------------------------------- bounds
MaxSock == 2        \* connections the model opens
MaxNew == 1         \* chatMessage invocations during a run
MaxReads == 1       \* fetchPreviousMessages invocations during a run
MaxFetch == 1       \* fetchPreviousMessages invocations in flight at once
MaxChat == 1        \* chatMessage invocations in flight at once
MaxLimitOver == 1   \* client limits range up to BATCH_SIZE + MaxLimitOver
MaxStride == 2      \* up to MaxStride stored messages share one timestamp
MaxTicks == 2       \* clock ticks during a run
MaxTicksShort == 1  \* clock ticks in the runs where time separates two events only
MaxJoins == 3       \* joinRoom invocations during a run
MaxJoinsConn == 2   \* joinRoom invocations in the runs with leaves and logins
MaxMentioning == 1  \* chatMessages in the run about mentions
MaxLeaves == 1      \* leaveRoom invocations during a run
MaxAuths == 1       \* handshakes during a run (beyond the initial connections)
MaxDiscs == 1       \* client or transport disconnects during a run
MaxMarks == 2       \* markMessagesAsRead invocations during a run
MaxReqs == 1        \* message_requests records during a run
MaxReadT == 2       \* reader updates and history requests in flight at once
MaxReacts == 1      \* messageReaction invocations during a run
MaxHttp == 2        \* HTTP requests of the room routes during a run
MaxJoinsRooms == 1  \* joinRoom invocations in the runs of the room routes
MaxFiles == 1       \* chatMessage invocations of type file during a run
MaxAI == 2          \* chatMessage invocations that mention an AI, and in flight at once
MaxChunks == 1      \* chunks the AI collaborator streams per generation
MaxIds == 4          \* message ids the fanout property ranges over

\* ------------------------------------------------------ program constants
BATCH_SIZE == 50
CACHE_TTL == 600
TTL_MS == CACHE_TTL * 1000      \* the TTL on the scale of Date.now()
GHOST_THRESHOLD == 2
DUPLICATE_LOGIN_TIMEOUT == 10000
MESSAGE_LOAD_TIMEOUT == 10000

Users == {"u1", "u2"}
Rooms == {"r1", "r2"}
Gateways == {1, 2}
Socks == 1..MaxSock
Kinds == {"fetch", "chat", "file", "join", "leave", "auth", "disc", "mark", "req", "ai",
          "react"}

\* ------------------------------------------------------------- variables
VARIABLES
  msgs,        \* Message collection: sequence of documents, _id = index
  readers,     \* readers array of each Message document (sequence of userIds)
  participants,\* Room collection: room -> set of participant userIds
  cache,       \* Redis: partial function "chat:{room}:latest" -> entry
  bus,         \* chat_messages topic: records not yet consumed
  consumed,    \* chat_messages records already handled by the consumer group
  sock,        \* Socket.IO sockets: state, user, gateway, rooms (insertion order)
  inbox,       \* per socket: ids received as `message` events
  evs,         \* per socket: names of the other events received
  loaded,      \* per socket: last previousMessagesLoaded payload (partial)
  fetchT,      \* fetchPreviousMessages invocations in flight
  chatT,       \* chatMessage invocations in flight
  consT,       \* eachMessage invocations of the chat_messages consumer in flight
  countMap,    \* roomMessageCountMap of each gateway process
  started,     \* handler invocations begun so far, by kind
  ticks,       \* clock ticks so far
  now,         \* Date.now()
  authT,       \* io.use handshakes in flight
  joinT,       \* joinRoom invocations in flight
  leaveT,      \* leaveRoom invocations in flight
  discT,       \* disconnect handlers in flight
  timers,      \* pending setTimeout callbacks of the duplicate-login protocol
  readT,       \* reader updates and message_requests handlers in flight
  marked,      \* completed markMessagesAsRead calls (history)
  pcache,      \* Redis: partial function <<room, before>> -> page entry
  resp,        \* message_responses topic: records published
  aiT,         \* handleAIResponse invocations in flight
  streams,     \* Redis hash streaming_sessions: messageId -> session
  aiLog,       \* AI streaming events emitted to rooms, in emission order
  httpT,       \* HTTP requests of routes/api/rooms.js in flight
  listCache,   \* Redis: partial function "rooms:list:..." key -> cached response
  roomInfo,    \* Room collection: room -> creator and password
  replies,     \* HTTP responses sent
  httpN,       \* HTTP requests begun so far
  reactions    \* reactions of each Message document: set of <<reaction, userId>>

connVars == <<authT, joinT, leaveT, discT, timers>>

readVars == <<readT, marked, pcache, resp>>

aiVars == <<aiT, streams, aiLog>>

httpVars == <<httpT, listCache, roomInfo, replies, httpN, reactions>>

vars == <<msgs, readers, participants, cache, bus, consumed, sock, inbox, evs,
          loaded, fetchT, chatT, consT, countMap, started, ticks, now, httpVars, connVars,
          readVars, aiVars>>

\* ------------------------------------------------------------- sequences
Range(s) == {s[i] : i \in DOMAIN s}

Min2(a, b) == IF a < b THEN a ELSE b

\* Array.prototype.slice(0, n) for n >= 0
Take(s, n) == SubSeq(s, 1, Min2(n, Len(s)))

\* messagesArr.splice(0, messagesArr.length - BATCH_SIZE): drop from the front
DropFront(s, n) == SubSeq(s, n + 1, Len(s))

Ts(id) == msgs[id].ts

\* ------------------------------------------------- durable store queries
\* ids matching { room, timestamp: { $lt: before } }; before = 0: no bound
Matching(room, before) ==
  {i \in DOMAIN msgs : msgs[i].room = room /\ (before = 0 \/ msgs[i].ts < before)}

Newest(S) == CHOOSE i \in S : \A j \in S : Ts(j) < Ts(i) \/ (Ts(j) = Ts(i) /\ j <= i)

\* .sort({ timestamp: -1 }).limit(n): newest first (ties: latest insert first)
RECURSIVE FindDesc(_, _)
FindDesc(S, n) ==
  IF n = 0 \/ S = {} THEN <<>>
  ELSE LET i == Newest(S) IN <<i>> \o FindDesc(S \ {i}, n - 1)

\* insert x into an ascending sequence after the elements not newer than it
RECURSIVE InsertAsc(_, _)
InsertAsc(s, x) ==
  IF s = <<>> THEN <<x>>
  ELSE IF Ts(Head(s)) <= Ts(x) THEN <<Head(s)>> \o InsertAsc(Tail(s), x)
  ELSE <<x>> \o s

KeepOrder(s) == s

\* resultMessages.sort((a, b) => new Date(a.timestamp) - new Date(b.timestamp))
\* (stable: equal timestamps keep their relative order)
RECURSIVE SortAsc(_)
SortAsc(s) == IF s = <<>> THEN <<>> ELSE InsertAsc(SortAsc(SubSeq(s, 1, Len(s) - 1)), s[Len(s)])

OldestTs(s) == IF s = <<>> THEN 0 ELSE Ts(s[1])

LoadHasMoreLoose(raw, limit) == Len(raw) >= limit

\* const hasMore = messages.length > limit
LoadHasMore(raw, limit) == Len(raw) > limit

\* loadMessagesDirect(query, limit), the branch in which the query wins the race
LoadMessagesDirect(room, before, limit) ==
  LET raw == FindDesc(Matching(room, before), limit + 1)
      sorted == SortAsc(Take(raw, limit))
  IN [messages |-> sorted, hasMore |-> LoadHasMore(raw, limit),
      oldestTimestamp |-> OldestTs(sorted)]

\* ------------------------------------------------------------ socket.io
NoRes == [messages |-> <<>>, hasMore |-> FALSE, oldestTimestamp |-> 0]

Connected(s) == sock[s].state = "connected"

\* io.to(room) with the Redis adapter (io.adapter(createAdapter(...))): the
\* sockets of every gateway instance that are in the room (LocalOnly: the
\* in-memory adapter, the sockets of gateway g only)
LocalOnly(room, g) == {s \in Socks : Connected(s) /\ sock[s].gw = g /\ room \in Range(sock[s].rooms)}

InRoom(room, g) == {s \in Socks : Connected(s) /\ room \in Range(sock[s].rooms)}

\* socket.emit(name): a disconnected socket receives nothing
Emit(s, name) == [evs EXCEPT ![s] = IF Connected(s) THEN @ \cup {name} ELSE @]

\* ------------------------------------------------------------ cache entry
\* const hasMore = messagesArr.length === BATCH_SIZE (write-back)
\* messagesArr.push(m); if (length > BATCH_SIZE) splice(0, length - BATCH_SIZE)
PushTrimNoTrim(arr, m) == Append(arr, m)

PushTrim(arr, m) ==
  LET a == Append(arr, m)
  IN IF Len(a) > BATCH_SIZE THEN DropFront(a, Len(a) - BATCH_SIZE) ELSE a

\* cachedData && cachedData.messages ? cachedData.messages : []
CachedArr(room) == IF room \in DOMAIN cache THEN cache[room].messages ELSE <<>>

WriteBackEntry(arr) ==
  [messages |-> arr, hasMore |-> (Len(arr) = BATCH_SIZE),
   oldestTimestamp |-> OldestTs(arr), src |-> "writeback", nAt |-> 0, lim |-> 0]

\* the entry a read of the room should find: the newest BATCH_SIZE messages
\* of the room, oldest first
Fresh(room, entry) ==
  LET m == entry.messages
      all == Matching(room, 0)
      held == Range(m)
  IN /\ Len(m) = Min2(BATCH_SIZE, Cardinality(all))
     /\ held \subseteq all
     /\ Cardinality(held) = Len(m)
     /\ \A i \in held, j \in all \ held : Ts(j) <= Ts(i)
     /\ \A i \in 1..(Len(m) - 1) : Ts(m[i]) <= Ts(m[i + 1])

\* a stored key: the value, the time its TTL runs out (exp) and, for a value
\* that differs from the store, the time since which the key has differed
Kept(entry, at, since) == entry @@ [exp |-> at + TTL_MS, since |-> since]

\* redisClient.setEx(key, 600, value): the value replaces the old one and the
\* TTL starts again
SetEx(room, entry) ==
  LET since == IF Fresh(room, entry) THEN 0
               ELSE IF room \in DOMAIN cache /\ cache[room].since # 0 THEN cache[room].since
               ELSE now
  IN [r \in DOMAIN cache \cup {room} |-> IF r = room THEN Kept(entry, now, since) ELSE cache[r]]

\* ------------------------------------------- fetchPreviousMessages handler
\* socket.on("fetchPreviousMessages", async ({ roomId, before, limit = BATCH_SIZE }))
\* loadMessagesDirect arms setTimeout(reject, MESSAGE_LOAD_TIMEOUT) when called
LoadDeadline == now + MESSAGE_LOAD_TIMEOUT

FetchStart(s, room, before, limit) ==
  /\ Connected(s)
  /\ Cardinality(fetchT) < MaxFetch
  /\ started["fetch"] < MaxReads
  /\ started' = [started EXCEPT !["fetch"] = @ + 1]
  /\ loaded' = <<>>                              \* the answer awaited is the new request's
  /\ fetchT' = fetchT \cup {[s |-> s, room |-> room, before |-> before, limit |-> limit,
                             pc |-> "findRoom", res |-> NoRes, nAt |-> 0, due |-> 0]}
  /\ UNCHANGED <<msgs, readers, participants, cache, bus, consumed, sock, inbox, evs,
                 chatT, consT, countMap, ticks, now, httpVars, connVars, readVars, aiVars>>

\* await Room.findOne({ _id: roomId, participants: socket.user.id })
FetchRoom(t) ==
  /\ t.pc = "findRoom"
  /\ IF sock[t.s].user \in participants[t.room]
     THEN /\ UNCHANGED evs                                  \* emit("messageLoadStart")
          /\ fetchT' = (fetchT \ {t}) \cup
               {[t EXCEPT !.pc = IF t.before # 0 THEN "queryDirect" ELSE "cacheGet",
                          !.due = IF t.before # 0 THEN LoadDeadline ELSE 0]}
     ELSE /\ evs' = Emit(t.s, "error")
          /\ fetchT' = fetchT \ {t}
  /\ UNCHANGED <<msgs, readers, participants, cache, bus, consumed, sock, inbox,
                 loaded, chatT, consT, countMap, started, ticks, now, httpVars, connVars, readVars, aiVars>>

\* if (before) { result = await loadMessagesDirect(query, limit); emit; return }
FetchQueryDirect(t) ==
  /\ t.pc = "queryDirect"
  /\ now < t.due                                 \* the query settles before the timer
  /\ fetchT' = fetchT \ {t}
  /\ \E won \in BOOLEAN :
       IF won
       THEN /\ UNCHANGED evs
            /\ loaded' = [x \in DOMAIN loaded \cup {t.s} |->
                 IF x = t.s
                 THEN [res |-> LoadMessagesDirect(t.room, t.before, t.limit),
                       room |-> t.room, before |-> t.before, limit |-> t.limit,
                       nAt |-> Len(msgs)]
                 ELSE loaded[x]]
       ELSE /\ evs' = Emit(t.s, "error")
            /\ UNCHANGED loaded
  /\ UNCHANGED <<msgs, readers, participants, cache, bus, consumed, sock, inbox,
                 chatT, consT, countMap, started, ticks, now, httpVars, connVars, readVars, aiVars>>

\* const cachedData = await redisClient.get(cacheKey); hit: emit and return
FetchCacheGet(t) ==
  /\ t.pc = "cacheGet"
  /\ \E ok \in BOOLEAN :
       IF ~ok
       THEN /\ evs' = Emit(t.s, "error")
            /\ fetchT' = fetchT \ {t}
            /\ UNCHANGED loaded
       ELSE IF t.room \in DOMAIN cache
       THEN /\ UNCHANGED evs
            /\ fetchT' = fetchT \ {t}
            /\ loaded' = [x \in DOMAIN loaded \cup {t.s} |->
                 IF x = t.s
                 THEN [res |-> [messages |-> cache[t.room].messages,
                                hasMore |-> cache[t.room].hasMore,
                                oldestTimestamp |-> cache[t.room].oldestTimestamp],
                       room |-> t.room, before |-> 0, limit |-> t.limit, nAt |-> Len(msgs)]
                 ELSE loaded[x]]
       ELSE /\ fetchT' = (fetchT \ {t}) \cup {[t EXCEPT !.pc = "queryMiss", !.due = LoadDeadline]}
            /\ UNCHANGED <<evs, loaded>>
  /\ UNCHANGED <<msgs, readers, participants, cache, bus, consumed, sock, inbox,
                 chatT, consT, countMap, started, ticks, now, httpVars, connVars, readVars, aiVars>>

\* cache miss: const result = await loadMessagesDirect({ room: roomId }, limit)
FetchQueryMiss(t) ==
  /\ t.pc = "queryMiss"
  /\ now < t.due
  /\ \E won \in BOOLEAN :
       IF won
       THEN /\ fetchT' = (fetchT \ {t}) \cup
                 {[t EXCEPT !.pc = "cacheSet",
                            !.res = LoadMessagesDirect(t.room, 0, t.limit),
                            !.nAt = Cardinality(Matching(t.room, 0))]}
            /\ UNCHANGED evs
       ELSE /\ evs' = Emit(t.s, "error")
            /\ fetchT' = fetchT \ {t}
  /\ UNCHANGED <<msgs, readers, participants, cache, bus, consumed, sock, inbox,
                 loaded, chatT, consT, countMap, started, ticks, now, httpVars, connVars, readVars, aiVars>>

\* await redisClient.setEx(cacheKey, 600, result); emit previousMessagesLoaded
FetchCacheSet(t) ==
  /\ t.pc = "cacheSet"
  /\ fetchT' = fetchT \ {t}
  /\ \E ok \in BOOLEAN :
       IF ok
       THEN /\ cache' = SetEx(t.room, [messages |-> t.res.messages, hasMore |-> t.res.hasMore,
                                       oldestTimestamp |-> t.res.oldestTimestamp,
                                       src |-> "rebuild", nAt |-> t.nAt, lim |-> t.limit])
            /\ UNCHANGED evs
            /\ loaded' = [x \in DOMAIN loaded \cup {t.s} |->
                 IF x = t.s
                 THEN [res |-> t.res, room |-> t.room, before |-> 0, limit |-> t.limit,
                       nAt |-> Len(msgs)]
                 ELSE loaded[x]]
       ELSE /\ evs' = Emit(t.s, "error")
            /\ UNCHANGED <<cache, loaded>>
  /\ UNCHANGED <<msgs, readers, participants, bus, consumed, sock, inbox,
                 chatT, consT, countMap, started, ticks, now, httpVars, connVars, readVars, aiVars>>

\* Promise.race: the timer rejects first; the handler's catch emits `error`
\* (LOAD_ERROR) and returns, the query itself is not cancelled
FetchTimeout(t) ==
  /\ t.pc \in {"queryDirect", "queryMiss"}
  /\ now >= t.due
  /\ evs' = Emit(t.s, "error")
  /\ fetchT' = (fetchT \ {t}) \cup {[t EXCEPT !.pc = "abandoned"]}
  /\ UNCHANGED <<msgs, readers, participants, cache, bus, consumed, sock, inbox,
                 loaded, chatT, consT, countMap, started, ticks, now, httpVars, connVars, readVars, aiVars>>

FetchLateDelivered(t) ==
  /\ t.pc = "abandoned"
  /\ fetchT' = fetchT \ {t}
  /\ loaded' = [x \in DOMAIN loaded \cup {t.s} |->
       IF x = t.s
       THEN [res |-> LoadMessagesDirect(t.room, t.before, t.limit),
             room |-> t.room, before |-> t.before, limit |-> t.limit, nAt |-> Len(msgs)]
       ELSE loaded[x]]
  /\ UNCHANGED <<msgs, readers, participants, cache, bus, consumed, sock, inbox, evs,
                 chatT, consT, countMap, started, ticks, now, httpVars, connVars, readVars, aiVars>>

\* the abandoned Message.find settles: the race is over, nobody awaits it
FetchLate(t) ==
  /\ t.pc = "abandoned"
  /\ fetchT' = fetchT \ {t}
  /\ UNCHANGED <<msgs, readers, participants, cache, bus, consumed, sock, inbox, evs,
                 loaded, chatT, consT, countMap, started, ticks, now, httpVars, connVars, readVars, aiVars>>

\* in the runs without a clock: the entry's TTL (600 s) runs out, Redis evicts
\* the key
Expire(room) ==
  /\ room \in DOMAIN cache
  /\ cache' = [r \in DOMAIN cache \ {room} |-> cache[r]]
  /\ UNCHANGED <<msgs, readers, participants, bus, consumed, sock, inbox, evs,
                 loaded, fetchT, chatT, consT, countMap, started, ticks, now, httpVars, connVars, readVars, aiVars>>

\* ----------------------------------------------------- chatMessage handler
Doc(room, type, sender, ts) ==
  [room |-> room, type |-> type, sender |-> sender, ts |-> ts, content |-> <<>>]

\* await message.save(): the document gets the next _id
SaveLost(doc) == UNCHANGED <<msgs, readers>>

Save(doc) == /\ msgs' = Append(msgs, doc)
             /\ readers' = Append(readers, <<>>)

\* io.to(room).emit("message", m)
EmitMessage(room, g, id) ==
  [s \in Socks |-> IF s \in InRoom(room, g) THEN inbox[s] \cup {id} ELSE inbox[s]]

ChatFailSilent(t) == /\ UNCHANGED evs
                     /\ chatT' = chatT \ {t}

ChatFail(t) == /\ evs' = Emit(t.s, "error")
               /\ chatT' = chatT \ {t}

ChatGoto(t, pc) == chatT' = (chatT \ {t}) \cup {[t EXCEPT !.pc = pc]}

\* const aiTypes = [...] and the alternatives of mentionRegex
AI_TYPES == {"wayneAI", "consultingAI", "spellingAI", "refuteAI", "agentB", "hankangAI"}

\* a content is read as its words; a word is "@name" (at) or plain text
At(name) == [at |-> TRUE, w |-> name]
Plain(w) == [at |-> FALSE, w |-> w]

\* the contents clients send, word by word
Words(content) ==
  CASE content = "mention" -> <<At("wayneAI"), Plain("hi")>>
    [] content = "twice"   -> <<At("wayneAI"), Plain("hi"), At("wayneAI")>>
    [] content = "two"     -> <<At("wayneAI"), At("spellingAI"), Plain("hi")>>
    [] content = "unknown" -> <<At("dragonAI"), Plain("hi")>>
    [] content = "empty"   -> <<>>
    [] OTHER               -> <<Plain(content)>>

\* while ((match = mentionRegex.exec(content)) !== null)
\*   if (aiTypes.includes(match[1])) mentions.add(match[1]);
RECURSIVE Mentions(_, _)
Mentions(ws, found) ==
  IF ws = <<>> THEN found
  ELSE LET w == Head(ws)
           seen == \E i \in 1..Len(found) : found[i] = w.w
       IN Mentions(Tail(ws), IF w.at /\ w.w \in AI_TYPES /\ ~seen THEN Append(found, w.w) ELSE found)

\* extractAIMentions(content): Array.from(mentions), in order of first mention
AIMentions(content) == Mentions(Words(content), <<>>)

\* content.replace(new RegExp(`@${ai}\\b`, "g"), "").trim()
Query(content, ai) == SelectSeq(Words(content), LAMBDA w : ~(w.at /\ w.w = ai))

\* const messageId = `${aiName}-${Date.now()}`
MessageId(ai) == <<ai, now>>

\* handleAIResponse(io, room, aiName, query) up to await redisClient.hSet
AITask(cid, room, ai, query) ==
  [cid |-> cid, room |-> room, ai |-> ai, query |-> query, mid |-> MessageId(ai), pc |-> "hset",
   acc |-> <<>>, cur |-> "", fed |-> 0, rej |-> FALSE, id |-> 0]

\* socket.on("chatMessage", async (messageData)) up to await Room.findOne
ChatStart(s, room, type, content) ==
  /\ Connected(s)
  /\ LET k == IF AIMentions(content) # <<>> THEN "ai" ELSE IF type = "file" THEN "file" ELSE "chat"
         inFlight == {t \in chatT : k = (IF AIMentions(t.content) # <<>> THEN "ai"
                                         ELSE IF t.type = "file" THEN "file" ELSE "chat")}
     IN /\ Cardinality(inFlight) < (IF k = "chat" THEN MaxChat ELSE IF k = "file" THEN MaxFiles ELSE MaxAI)
        /\ started[k] < (IF k = "chat" THEN MaxNew ELSE IF k = "file" THEN MaxFiles ELSE MaxAI)
        /\ started' = [started EXCEPT ![k] = @ + 1]
  /\ chatT' = chatT \cup {[s |-> s, room |-> room, type |-> type, content |-> content,
                           n |-> started["chat"] + started["file"] + started["ai"] + 1,   \* arrival number
                           pc |-> "findRoom", ts |-> 0, id |-> 0, ghost |-> 0, arr |-> <<>>,
                           asked |-> <<>>]}                 \* AI names handleAIResponse was called for
  /\ UNCHANGED <<msgs, readers, participants, cache, bus, consumed, sock, inbox, evs,
                 loaded, fetchT, consT, countMap, ticks, now, httpVars, connVars, readVars, aiVars>>

\* const chatRoom = await Room.findOne({ _id: room, participants: socket.user.id })
ChatRoom(t) ==
  /\ t.pc = "findRoom"
  /\ IF sock[t.s].user \in participants[t.room]
     THEN ChatGoto(t, "validate") /\ UNCHANGED evs
     ELSE ChatFail(t)
  /\ UNCHANGED <<msgs, readers, participants, cache, bus, consumed, sock, inbox,
                 loaded, fetchT, consT, countMap, started, ticks, now, httpVars, connVars, readVars, aiVars>>

\* await SessionService.validateSession(...), then the dispatch on type up to
\* the next await (File.findOne for a file, message.save() for a text)
ChatValidate(t) ==
  /\ t.pc = "validate"
  /\ \E valid \in BOOLEAN :
       IF ~valid THEN ChatFail(t)
       ELSE IF t.content = "answer"                            \* content.startsWith("/정답 ")
       THEN /\ evs' = [s \in Socks |-> IF s \in InRoom(t.room, sock[t.s].gw)
                                       THEN evs[s] \cup {"answerCheck"} ELSE evs[s]]
            /\ chatT' = chatT \ {t}
       ELSE IF t.type = "file" THEN ChatGoto(t, "findFile") /\ UNCHANGED evs
       ELSE IF t.type = "text"
       THEN IF t.content = "empty"
            THEN chatT' = chatT \ {t} /\ UNCHANGED evs          \* if (!messageContent) return
            ELSE /\ chatT' = (chatT \ {t}) \cup {[t EXCEPT !.pc = "save", !.ts = now]}
                 /\ UNCHANGED evs
       ELSE ChatFail(t)                                        \* unsupported type
  /\ UNCHANGED <<msgs, readers, participants, cache, bus, consumed, sock, inbox,
                 loaded, fetchT, consT, countMap, started, ticks, now, httpVars, connVars, readVars, aiVars>>

\* const file = await File.findOne({ _id: fileData._id, user: socket.user.id })
ChatFindFile(t) ==
  /\ t.pc = "findFile"
  /\ \E found \in BOOLEAN :
       IF found
       THEN /\ chatT' = (chatT \ {t}) \cup {[t EXCEPT !.pc = "save", !.ts = now]}
            /\ UNCHANGED evs
       ELSE ChatFail(t)
  /\ UNCHANGED <<msgs, readers, participants, cache, bus, consumed, sock, inbox,
                 loaded, fetchT, consT, countMap, started, ticks, now, httpVars, connVars, readVars, aiVars>>

\* await message.save(); await message.populate(...)
ChatSave(t) ==
  /\ t.pc = "save"
  /\ \E ok \in BOOLEAN :
       IF ok
       THEN /\ Save(Doc(t.room, t.type, sock[t.s].user, t.ts))
            /\ chatT' = (chatT \ {t}) \cup {[t EXCEPT !.pc = "publish", !.id = Len(msgs) + 1]}
            /\ UNCHANGED evs
       ELSE ChatFail(t) /\ UNCHANGED <<msgs, readers>>
  /\ UNCHANGED <<participants, cache, bus, consumed, sock, inbox,
                 loaded, fetchT, consT, countMap, started, ticks, now, httpVars, connVars, readVars, aiVars>>

\* await producer.send({ topic: "chat_messages", ... message })
ChatPublish(t) ==
  /\ t.pc = "publish"
  /\ \E ok \in BOOLEAN :
       IF ok
       THEN /\ bus' = bus \cup {t.id}
            /\ IF AIMentions(t.content) = <<>>
               THEN ChatGoto(t, "activity") /\ UNCHANGED aiT
               ELSE LET ai == AIMentions(t.content)[1]         \* for (const ai of aiMentions)
                    IN /\ chatT' = (chatT \ {t}) \cup {[t EXCEPT !.pc = "ai", !.asked = <<ai>>]}
                       /\ aiT' = aiT \cup {AITask(t.id, t.room, ai, Query(t.content, ai))}
            /\ UNCHANGED evs
       ELSE ChatFail(t) /\ UNCHANGED <<bus, aiT>>
  /\ UNCHANGED <<msgs, readers, participants, cache, consumed, sock, inbox,
                 loaded, fetchT, consT, countMap, started, ticks, now, httpVars, connVars, readVars,
                 streams, aiLog>>

\* await SessionService.updateLastActivity(...), then the per-process counter
ChatActivity(t) ==
  /\ t.pc = "activity"
  /\ \E ok \in BOOLEAN :
       IF ok
       THEN LET g == sock[t.s].gw
                newCount == countMap[g][t.room] + 1
            IN /\ countMap' = [countMap EXCEPT ![g][t.room] = newCount]
               /\ ChatGoto(t, IF newCount >= GHOST_THRESHOLD THEN "ghostGen" ELSE "cacheGet")
               /\ UNCHANGED evs
       ELSE ChatFail(t) /\ UNCHANGED countMap
  /\ UNCHANGED <<msgs, readers, participants, cache, bus, consumed, sock, inbox,
                 loaded, fetchT, consT, started, ticks, now, httpVars, connVars, readVars, aiVars>>

\* await Message.findOne({ room }); await aiService.generateGhostResponse(...)
ChatGhostGen(t) ==
  /\ t.pc = "ghostGen"
  /\ \E ok \in BOOLEAN :
       IF ok
       THEN /\ chatT' = (chatT \ {t}) \cup {[t EXCEPT !.pc = "ghostSave", !.ghost = now]}
            /\ UNCHANGED evs
       ELSE ChatFail(t)
  /\ UNCHANGED <<msgs, readers, participants, cache, bus, consumed, sock, inbox,
                 loaded, fetchT, consT, countMap, started, ticks, now, httpVars, connVars, readVars, aiVars>>

\* await aiMessage.save(); io.to(room).emit("message", aiMessage)
ChatGhostSave(t) ==
  /\ t.pc = "ghostSave"
  /\ \E ok \in BOOLEAN :
       IF ok
       THEN /\ Save(Doc(t.room, "ai", "none", t.ghost))
            /\ inbox' = EmitMessage(t.room, sock[t.s].gw, Len(msgs) + 1)
            /\ chatT' = (chatT \ {t}) \cup {[t EXCEPT !.pc = "ghostPublish", !.ghost = Len(msgs) + 1]}
            /\ UNCHANGED evs
       ELSE ChatFail(t) /\ UNCHANGED <<msgs, readers, inbox>>
  /\ UNCHANGED <<participants, cache, bus, consumed, sock,
                 loaded, fetchT, consT, countMap, started, ticks, now, httpVars, connVars, readVars, aiVars>>

\* await producer.send(... aiMessage); roomMessageCountMap.set(room, 0)
ChatGhostPublish(t) ==
  /\ t.pc = "ghostPublish"
  /\ \E ok \in BOOLEAN :
       IF ok
       THEN /\ bus' = bus \cup {t.ghost}
            /\ countMap' = [countMap EXCEPT ![sock[t.s].gw][t.room] = 0]
            /\ ChatGoto(t, "cacheGet")
            /\ UNCHANGED evs
       ELSE ChatFail(t) /\ UNCHANGED <<bus, countMap>>
  /\ UNCHANGED <<msgs, readers, participants, cache, consumed, sock, inbox,
                 loaded, fetchT, consT, started, ticks, now, httpVars, connVars, readVars, aiVars>>

\* const cachedData = await redisClient.get(cacheKey); push; trim
ChatCacheGet(t) ==
  /\ t.pc = "cacheGet"
  /\ \E ok \in BOOLEAN :
       IF ok
       THEN /\ chatT' = (chatT \ {t}) \cup
                 {[t EXCEPT !.pc = "cacheSet", !.arr = PushTrim(CachedArr(t.room), t.id)]}
            /\ UNCHANGED evs
       ELSE ChatFail(t)
  /\ UNCHANGED <<msgs, readers, participants, cache, bus, consumed, sock, inbox,
                 loaded, fetchT, consT, countMap, started, ticks, now, httpVars, connVars, readVars, aiVars>>

\* await redisClient.setEx(cacheKey, 600, updatedResult)
ChatCacheSet(t) ==
  /\ t.pc = "cacheSet"
  /\ \E ok \in BOOLEAN :
       IF ok
       THEN /\ cache' = SetEx(t.room, WriteBackEntry(t.arr))
            /\ chatT' = chatT \ {t}
            /\ UNCHANGED evs
       ELSE ChatFail(t) /\ UNCHANGED cache
  /\ UNCHANGED <<msgs, readers, participants, bus, consumed, sock, inbox,
                 loaded, fetchT, consT, countMap, started, ticks, now, httpVars, connVars, readVars, aiVars>>

\* ------------------------------------------------------- handleAIResponse
\* redisClient.hSet(STREAMING_SESSIONS_KEY, messageId, JSON.stringify(session))
HSet(mid, session) ==
  [k \in DOMAIN streams \cup {mid} |-> IF k = mid THEN session ELSE streams[k]]

\* redisClient.hDel(STREAMING_SESSIONS_KEY, messageId)
HDel(mid) == [k \in DOMAIN streams \ {mid} |-> streams[k]]

\* io.to(room).emit("aiMessageStart" | "aiMessageChunk" | "aiMessageComplete" |
\*                  "aiMessageError", { messageId, ... })
AIEmit(a, ev, delta, full, id) ==
  aiLog' = Append(aiLog, [ev |-> ev, mid |-> a.mid, cid |-> a.cid, room |-> a.room,
                          delta |-> delta, full |-> full, id |-> id])

\* the chatMessage handler awaiting this handleAIResponse call
Caller(a) == CHOOSE t \in chatT : t.pc = "ai" /\ t.id = a.cid

\* handleAIResponse resolves: the chatMessage handler's loop calls it for the
\* next mentioned name, or goes on after the last
AIResolve(a) ==
  /\ LET t == Caller(a)
         names == AIMentions(t.content)
     IN IF Len(t.asked) < Len(names)
        THEN LET ai == names[Len(t.asked) + 1]
             IN /\ chatT' = (chatT \ {t}) \cup {[t EXCEPT !.asked = Append(@, ai)]}
                /\ aiT' = (aiT \ {a}) \cup {AITask(t.id, t.room, ai, Query(t.content, ai))}
        ELSE /\ aiT' = aiT \ {a}
             /\ ChatGoto(t, "activity")
  /\ UNCHANGED evs

\* handleAIResponse rejects: the chatMessage handler's catch emits `error`
AIReject(a) ==
  /\ aiT' = aiT \ {a}
  /\ ChatFail(Caller(a))

AIGoto(a, pc) == aiT' = (aiT \ {a}) \cup {[a EXCEPT !.pc = pc]}

\* the deltas the AI collaborator streams
Script == <<"a", "b", "c">>

\* await redisClient.hSet(... sessionData); io.to(room).emit("aiMessageStart")
AIBegin(a) ==
  /\ a.pc = "hset"
  /\ \E ok \in BOOLEAN :
       IF ok
       THEN /\ streams' = HSet(a.mid, [room |-> a.room, content |-> <<>>])
            /\ AIEmit(a, "aiMessageStart", "", <<>>, 0)
            /\ AIGoto(a, "gen")
            /\ UNCHANGED <<chatT, evs>>
       ELSE AIReject(a) /\ UNCHANGED <<streams, aiLog>>
  /\ UNCHANGED <<msgs, readers, participants, cache, bus, consumed, sock, inbox, loaded,
                 fetchT, consT, countMap, started, ticks, now, httpVars, connVars, readVars>>

\* the collaborator calls onChunk(chunk): accumulatedContent += chunk.currentChunk
AIChunk(a) ==
  /\ a.pc = "gen"
  /\ a.fed < MaxChunks
  /\ aiT' = (aiT \ {a}) \cup
       {[a EXCEPT !.pc = "chunkSet", !.fed = @ + 1, !.cur = Script[a.fed + 1],
                  !.acc = Append(@, Script[a.fed + 1])]}
  /\ UNCHANGED <<msgs, readers, participants, cache, bus, consumed, sock, inbox, evs, loaded,
                 fetchT, chatT, consT, countMap, started, ticks, now, httpVars, connVars, readVars,
                 streams, aiLog>>

\* onChunk: await redisClient.hSet(... updatedSession); io.to(room).emit("aiMessageChunk");
\* when the hSet fails onChunk rejects and the collaborator goes on or gives up
AIChunkSet(a) ==
  /\ a.pc = "chunkSet"
  /\ \E ok \in BOOLEAN, goesOn \in BOOLEAN :
       IF ok
       THEN /\ streams' = HSet(a.mid, [room |-> a.room, content |-> a.acc])
            /\ AIEmit(a, "aiMessageChunk", a.cur, a.acc, 0)
            /\ AIGoto(a, "gen")
       ELSE /\ AIGoto(a, IF goesOn THEN "gen" ELSE "fail")
            /\ UNCHANGED <<streams, aiLog>>
  /\ UNCHANGED <<msgs, readers, participants, cache, bus, consumed, sock, inbox, evs, loaded,
                 fetchT, chatT, consT, countMap, started, ticks, now, httpVars, connVars, readVars>>

\* the collaborator calls onComplete(finalContent), finalContent.content being
\* what it streamed; onComplete: await redisClient.hDel(...)
AIComplete(a) ==
  /\ a.pc = "gen"
  /\ \E ok \in BOOLEAN :
       IF ok
       THEN streams' = HDel(a.mid) /\ AIGoto(a, "compSave")
       ELSE UNCHANGED streams /\ AIGoto(a, "fail")
  /\ UNCHANGED <<msgs, readers, participants, cache, bus, consumed, sock, inbox, evs, loaded,
                 fetchT, chatT, consT, countMap, started, ticks, now, httpVars, connVars, readVars,
                 aiLog>>

\* onComplete: await aiMessage.save(); await aiMessage.populate(...)
AICompSave(a) ==
  /\ a.pc = "compSave"
  /\ \E ok \in BOOLEAN :
       IF ok
       THEN /\ Save([Doc(a.room, "ai", "none", now) EXCEPT !.content = a.acc])
            /\ aiT' = (aiT \ {a}) \cup {[a EXCEPT !.pc = "compSend", !.id = Len(msgs) + 1]}
       ELSE AIGoto(a, "fail") /\ UNCHANGED <<msgs, readers>>
  /\ UNCHANGED <<participants, cache, bus, consumed, sock, inbox, evs, loaded,
                 fetchT, chatT, consT, countMap, started, ticks, now, httpVars, connVars, readVars,
                 streams, aiLog>>

\* onComplete: await producer.send(... aiMessage); io.to(room).emit("aiMessageComplete");
\* generateResponse then resolves
AICompSend(a) ==
  /\ a.pc = "compSend"
  /\ \E ok \in BOOLEAN :
       IF ok
       THEN /\ bus' = bus \cup {a.id}
            /\ AIEmit(a, "aiMessageComplete", "", a.acc, a.id)
            /\ AIResolve(a)
       ELSE AIGoto(a, "fail") /\ UNCHANGED <<bus, aiLog, chatT, evs>>
  /\ UNCHANGED <<msgs, readers, participants, cache, consumed, sock, inbox, loaded,
                 fetchT, consT, countMap, started, ticks, now, httpVars, connVars, readVars, streams>>

\* the generation fails inside the collaborator
AIFail(a) ==
  /\ a.pc = "gen"
  /\ AIGoto(a, "fail")
  /\ UNCHANGED <<msgs, readers, participants, cache, bus, consumed, sock, inbox, evs, loaded,
                 fetchT, chatT, consT, countMap, started, ticks, now, httpVars, connVars, readVars,
                 streams, aiLog>>

\* the collaborator's handling of a failure: it may call onError, and it may
\* reject generateResponse; with neither, generateResponse resolves
AICollabError(a) ==
  /\ a.pc = "fail"
  /\ \E callsOnError \in BOOLEAN, rejects \in BOOLEAN :
       IF callsOnError
       THEN /\ aiT' = (aiT \ {a}) \cup {[a EXCEPT !.pc = "errDel", !.rej = rejects]}
            /\ UNCHANGED <<chatT, evs>>
       ELSE IF rejects
       THEN AIGoto(a, "catchDel") /\ UNCHANGED <<chatT, evs>>
       ELSE AIResolve(a)
  /\ UNCHANGED <<msgs, readers, participants, cache, bus, consumed, sock, inbox, loaded,
                 fetchT, consT, countMap, started, ticks, now, httpVars, connVars, readVars,
                 streams, aiLog>>

\* onError: await redisClient.hDel(...); io.to(room).emit("aiMessageError")
AIOnError(a) ==
  /\ a.pc = "errDel"
  /\ \E ok \in BOOLEAN :
       /\ IF ok
          THEN streams' = HDel(a.mid) /\ AIEmit(a, "aiMessageError", "", <<>>, 0)
          ELSE UNCHANGED <<streams, aiLog>>
       /\ IF a.rej
          THEN AIGoto(a, "catchDel") /\ UNCHANGED <<chatT, evs>>
          ELSE AIResolve(a)
  /\ UNCHANGED <<msgs, readers, participants, cache, bus, consumed, sock, inbox, loaded,
                 fetchT, consT, countMap, started, ticks, now, httpVars, connVars, readVars>>

\* catch (error): await redisClient.hDel(...); io.to(room).emit("aiMessageError")
AICatch(a) ==
  /\ a.pc = "catchDel"
  /\ \E ok \in BOOLEAN :
       IF ok
       THEN /\ streams' = HDel(a.mid)
            /\ AIEmit(a, "aiMessageError", "", <<>>, 0)
            /\ AIResolve(a)
       ELSE AIReject(a) /\ UNCHANGED <<streams, aiLog>>
  /\ UNCHANGED <<msgs, readers, participants, cache, bus, consumed, sock, inbox, loaded,
                 fetchT, consT, countMap, started, ticks, now, httpVars, connVars, readVars>>

\* ------------------------------------------- chat_messages consumer (group)
\* eachMessage for a chat_messages record: one consumer of the group gets it;
\* eachMessage runs one record at a time per consumer
ConsumeStart(g, id) ==
  /\ id \in bus
  /\ \A c \in consT : c.g # g
  /\ bus' = bus \ {id}
  /\ inbox' = IF msgs[id].type # "ai" THEN EmitMessage(msgs[id].room, g, id) ELSE inbox
  /\ consT' = consT \cup {[g |-> g, id |-> id, pc |-> "cacheGet", arr |-> <<>>]}
  /\ UNCHANGED <<msgs, readers, participants, cache, consumed, sock, evs,
                 loaded, fetchT, chatT, countMap, started, ticks, now, httpVars, connVars, readVars, aiVars>>

ConsumeDone(c) == /\ consT' = consT \ {c}
                  /\ consumed' = consumed \cup {c.id}

\* const cachedData = await redisClient.get(cacheKey); push; trim
ConsumeCacheGet(c) ==
  /\ c.pc = "cacheGet"
  /\ \E ok \in BOOLEAN :
       IF ok
       THEN /\ consT' = (consT \ {c}) \cup
                 {[c EXCEPT !.pc = "cacheSet", !.arr = PushTrim(CachedArr(msgs[c.id].room), c.id)]}
            /\ UNCHANGED consumed
       ELSE ConsumeDone(c)
  /\ UNCHANGED <<msgs, readers, participants, cache, bus, sock, inbox, evs,
                 loaded, fetchT, chatT, countMap, started, ticks, now, httpVars, connVars, readVars, aiVars>>

\* await redisClient.setEx(cacheKey, 600, updatedResult)
ConsumeCacheSet(c) ==
  /\ c.pc = "cacheSet"
  /\ ConsumeDone(c)
  /\ \E ok \in BOOLEAN :
       IF ok THEN cache' = SetEx(msgs[c.id].room, WriteBackEntry(c.arr))
       ELSE UNCHANGED cache
  /\ UNCHANGED <<msgs, readers, participants, bus, sock, inbox, evs,
                 loaded, fetchT, chatT, countMap, started, ticks, now, httpVars, connVars, readVars, aiVars>>

\* Date.now() advances by d; Redis evicts the keys whose TTL has run out
Tick(d) ==
  /\ ticks < MaxTicks
  /\ ticks' = ticks + 1
  /\ now' = now + d
  /\ cache' = [r \in {k \in DOMAIN cache : cache[k].exp > now + d} |-> cache[r]]
  /\ UNCHANGED <<msgs, readers, participants, bus, consumed, sock, inbox, evs,
                 loaded, fetchT, chatT, consT, countMap, started, connVars, readVars, aiVars, httpVars>>

\* ------------------------------------------------------- rooms of a socket
quietConn == <<cache, consumed, inbox, loaded, fetchT, chatT, consT, ticks, now, httpVars>>

\* const currentRooms = Array.from(socket.rooms).filter((r) => r !== socket.id);
\* const currentRoom = currentRooms.length > 0 ? currentRooms[0] : null;
CurrentRoom(s) == IF sock[s].rooms = <<>> THEN "" ELSE sock[s].rooms[1]

\* socket.leave(room)
SocketLeave(s, room) ==
  [sock EXCEPT ![s].rooms = SelectSeq(@, LAMBDA r : r # room)]

\* socket.join(room): a no-op once the socket is closed
SocketJoin(s, room) ==
  [sock EXCEPT ![s].rooms = IF Connected(s) /\ room \notin Range(@) THEN Append(@, room) ELSE @]

\* ------------------------------------------------------------ read receipts
Count(seq, u) == Cardinality({i \in DOMAIN seq : seq[i] = u})

ReadFilterNoNe(id, room, u) == room = "" \/ msgs[id].room = room

\* the updateMany filter: { _id: {$in: ids}, [room: roomId,]
\*                          "readers.userId": {$ne: userId} }
ReadFilter(id, room, u) ==
  /\ room = "" \/ msgs[id].room = room
  /\ u \notin Range(readers[id])

\* { $push: { readers: { userId, readAt } } } on one matching document; filter
\* and update of one document are atomic
PushReader(id, room, u) ==
  IF ReadFilter(id, room, u) THEN [readers EXCEPT ![id] = Append(@, u)] ELSE readers

ReadTask(kind, s, u, room, before, ids) ==
  [kind |-> kind, s |-> s, user |-> u, room |-> room, before |-> before, ids |-> ids,
   todo |-> ids, pc |-> "update", res |-> NoRes,
   n |-> IF kind \in DOMAIN started THEN started[kind] ELSE 0]

\* loadMessages: the reader update it starts and does not await
LoadReaderUpdate(s, room, before, limit) ==
  LET ids == Range(LoadMessagesDirect(room, before, limit).messages)
  IN IF ids = {} THEN {} ELSE {ReadTask("load", s, sock[s].user, "", before, ids)}

\* one document of the join-time update; a failure is logged and ends it
LoadUpdate(t) ==
  /\ t.kind = "load"
  /\ \E ok \in BOOLEAN, id \in t.todo :
       IF ok
       THEN /\ readers' = PushReader(id, t.room, t.user)
            /\ readT' = (readT \ {t}) \cup
                 (IF t.todo = {id} THEN {} ELSE {[t EXCEPT !.todo = @ \ {id}]})
       ELSE /\ readT' = readT \ {t}
            /\ UNCHANGED readers
  /\ UNCHANGED <<msgs, participants, cache, bus, consumed, sock, inbox, evs, loaded,
                 fetchT, chatT, consT, countMap, started, ticks, now, httpVars, connVars,
                 marked, pcache, resp, aiVars>>

\* socket.on("markMessagesAsRead", async ({ roomId, messageIds })) up to the await
MarkStart(s, room, ids) ==
  /\ Connected(s)
  /\ started["mark"] < MaxMarks
  /\ Cardinality(readT) < MaxReadT
  /\ started' = [started EXCEPT !["mark"] = @ + 1]
  /\ IF ids = {}
     THEN UNCHANGED readT                                     \* length === 0: return
     ELSE readT' = readT \cup {ReadTask("mark", s, sock[s].user, room, 0, ids)}
  /\ UNCHANGED <<msgs, readers, participants, cache, bus, consumed, sock, inbox, evs, loaded,
                 fetchT, chatT, consT, countMap, ticks, now, httpVars, connVars,
                 marked, pcache, resp, aiVars>>

\* await Message.updateMany(...): one document; a failure emits `error`
MarkUpdate(t) ==
  /\ t.kind = "mark"
  /\ \E ok \in BOOLEAN, id \in t.todo :
       IF ok
       THEN /\ readers' = PushReader(id, t.room, t.user)
            /\ readT' = (readT \ {t}) \cup {[t EXCEPT !.todo = @ \ {id}]}
            /\ UNCHANGED evs
       ELSE /\ readT' = readT \ {t}
            /\ evs' = Emit(t.s, "error")
            /\ UNCHANGED readers
  /\ UNCHANGED <<msgs, participants, cache, bus, consumed, sock, inbox, loaded,
                 fetchT, chatT, consT, countMap, started, ticks, now, httpVars, connVars,
                 marked, pcache, resp, aiVars>>

\* updateMany resolved: socket.to(roomId).emit("messagesRead", ...)
MarkDone(t) ==
  /\ t.kind = "mark"
  /\ t.todo = {}
  /\ readT' = readT \ {t}
  /\ marked' = marked \cup {[n |-> t.n, user |-> t.user, room |-> t.room, ids |-> t.ids]}
  /\ evs' = [e \in Socks |-> IF e \in InRoom(t.room, sock[t.s].gw) \ {t.s}
                             THEN evs[e] \cup {"messagesRead"} ELSE evs[e]]
  /\ UNCHANGED <<msgs, readers, participants, cache, bus, consumed, sock, inbox, loaded,
                 fetchT, chatT, consT, countMap, started, ticks, now, httpVars, connVars,
                 pcache, resp, aiVars>>

\* ------------------------------------------------- messageReaction handler
\* socket.on("messageReaction", async ({ messageId, reaction, type })) up to the
\* first await
ReactStart(s, id, reaction, type) ==
  /\ Connected(s)
  /\ started["react"] < MaxReacts
  /\ Cardinality(readT) < MaxReadT
  /\ started' = [started EXCEPT !["react"] = @ + 1]
  /\ readT' = readT \cup {[ReadTask("react", s, sock[s].user, "", 0, {id})
                             EXCEPT !.pc = "find", !.res = [reaction |-> reaction, type |-> type]]}
  /\ UNCHANGED <<msgs, readers, participants, cache, bus, consumed, sock, inbox, evs, loaded,
                 fetchT, chatT, consT, countMap, ticks, now, httpVars, connVars,
                 marked, pcache, resp, aiVars>>

\* const message = await Message.findById(messageId); if (!message) throw
ReactFind(t) ==
  /\ t.kind = "react" /\ t.pc = "find"
  /\ \E ok \in BOOLEAN :
       IF ok /\ t.ids \subseteq DOMAIN msgs
       THEN /\ readT' = (readT \ {t}) \cup
                  {[t EXCEPT !.pc = "apply", !.room = msgs[CHOOSE id \in t.ids : TRUE].room]}
            /\ UNCHANGED evs
       ELSE /\ readT' = readT \ {t}
            /\ evs' = Emit(t.s, "error")
  /\ UNCHANGED <<msgs, readers, participants, cache, bus, consumed, sock, inbox, loaded,
                 fetchT, chatT, consT, countMap, started, ticks, now, httpVars, connVars,
                 marked, pcache, resp, aiVars>>

\* await message.addReaction(reaction, userId) / removeReaction(...);
\* io.to(message.room).emit("messageReactionUpdate", ...)
ReactApply(t) ==
  /\ t.kind = "react" /\ t.pc = "apply"
  /\ \E ok \in BOOLEAN :
       IF ok
       THEN LET mine == {<<id, t.res.reaction, t.user>> : id \in t.ids}
            IN /\ reactions' = IF t.res.type = "add" THEN reactions \cup mine
                               ELSE IF t.res.type = "remove" THEN reactions \ mine
                               ELSE reactions
               /\ evs' = [e \in Socks |-> IF e \in InRoom(t.room, sock[t.s].gw)
                                          THEN evs[e] \cup {"messageReactionUpdate"}
                                          ELSE evs[e]]
       ELSE /\ evs' = Emit(t.s, "error")
            /\ UNCHANGED reactions
  /\ readT' = readT \ {t}
  /\ UNCHANGED <<msgs, readers, participants, cache, bus, consumed, sock, inbox, loaded,
                 fetchT, chatT, consT, countMap, started, ticks, now, connVars,
                 marked, pcache, resp, aiVars, httpT, listCache, roomInfo, replies, httpN>>

\* ------------------------------------------------ message_requests consumer
ReqGoto(t, pc) == readT' = (readT \ {t}) \cup {[t EXCEPT !.pc = pc]}

\* a record { roomId, before, userId } arrives on message_requests
ReqStart(u, room, before) ==
  /\ started["req"] < MaxReqs
  /\ Cardinality(readT) < MaxReadT
  /\ \A t \in readT : t.kind # "req"                          \* one record at a time
  /\ started' = [started EXCEPT !["req"] = @ + 1]
  /\ readT' = readT \cup {[ReadTask("req", 0, u, "", before, {}) EXCEPT !.room = room,
                                                                       !.pc = "cacheGet"]}
  /\ UNCHANGED <<msgs, readers, participants, cache, bus, consumed, sock, inbox, evs, loaded,
                 fetchT, chatT, consT, countMap, ticks, now, httpVars, connVars,
                 marked, pcache, resp, aiVars>>

\* const cachedData = await redisClient.get(cacheKey)
ReqCacheGet(t) ==
  /\ t.kind = "req" /\ t.pc = "cacheGet"
  /\ \E ok \in BOOLEAN :
       IF ~ok THEN readT' = readT \ {t}
       ELSE IF <<t.room, t.before>> \in DOMAIN pcache
       THEN readT' = (readT \ {t}) \cup
              {[t EXCEPT !.pc = "send", !.res = pcache[<<t.room, t.before>>]]}
       ELSE ReqGoto(t, "find")
  /\ UNCHANGED <<msgs, readers, participants, cache, bus, consumed, sock, inbox, evs, loaded,
                 fetchT, chatT, consT, countMap, started, ticks, now, httpVars, connVars,
                 marked, pcache, resp, aiVars>>

\* const messages = await Message.find(query)...limit(BATCH_SIZE + 1); slice; sort
ReqFind(t) ==
  /\ t.kind = "req" /\ t.pc = "find"
  /\ \E ok \in BOOLEAN :
       IF ~ok THEN readT' = readT \ {t}
       ELSE LET res == LoadMessagesDirect(t.room, t.before, BATCH_SIZE)
                ids == Range(res.messages)
            IN readT' = (readT \ {t}) \cup
                 {[t EXCEPT !.res = res, !.ids = ids, !.todo = ids,
                            !.pc = IF ids = {} THEN "cacheSet" ELSE "update"]}
  /\ UNCHANGED <<msgs, readers, participants, cache, bus, consumed, sock, inbox, evs, loaded,
                 fetchT, chatT, consT, countMap, started, ticks, now, httpVars, connVars,
                 marked, pcache, resp, aiVars>>

\* await Message.updateMany({ _id: {$in}, "readers.userId": {$ne: userId} }, $push)
ReqUpdate(t) ==
  /\ t.kind = "req" /\ t.pc = "update"
  /\ \E ok \in BOOLEAN, id \in t.todo :
       IF ok
       THEN /\ readers' = PushReader(id, "", t.user)
            /\ readT' = (readT \ {t}) \cup
                 {[t EXCEPT !.todo = @ \ {id},
                            !.pc = IF t.todo = {id} THEN "cacheSet" ELSE "update"]}
       ELSE /\ readT' = readT \ {t}
            /\ UNCHANGED readers
  /\ UNCHANGED <<msgs, participants, cache, bus, consumed, sock, inbox, evs, loaded,
                 fetchT, chatT, consT, countMap, started, ticks, now, httpVars, connVars,
                 marked, pcache, resp, aiVars>>

\* await redisClient.setEx(cacheKey, 600, result)
ReqCacheSet(t) ==
  /\ t.kind = "req" /\ t.pc = "cacheSet"
  /\ \E ok \in BOOLEAN :
       IF ok
       THEN /\ pcache' = [k \in DOMAIN pcache \cup {<<t.room, t.before>>} |->
                            IF k = <<t.room, t.before>> THEN t.res ELSE pcache[k]]
            /\ ReqGoto(t, "send")
       ELSE /\ readT' = readT \ {t}
            /\ UNCHANGED pcache
  /\ UNCHANGED <<msgs, readers, participants, cache, bus, consumed, sock, inbox, evs, loaded,
                 fetchT, chatT, consT, countMap, started, ticks, now, httpVars, connVars,
                 marked, resp, aiVars>>

\* await producer.send({ topic: "message_responses", ... })
ReqSend(t) ==
  /\ t.kind = "req" /\ t.pc = "send"
  /\ readT' = readT \ {t}
  /\ \E ok \in BOOLEAN :
       IF ok THEN resp' = resp \cup {[user |-> t.user, room |-> t.room, res |-> t.res]}
       ELSE UNCHANGED resp
  /\ UNCHANGED <<msgs, readers, participants, cache, bus, consumed, sock, inbox, evs, loaded,
                 fetchT, chatT, consT, countMap, started, ticks, now, httpVars, connVars,
                 marked, pcache, aiVars>>

\* ---------------------------------------------------------- joinRoom handler
JoinFail(t) == /\ evs' = Emit(t.s, "joinRoomError")
               /\ joinT' = joinT \ {t}

\* socket.on("joinRoom", async (roomId)) up to the first await
JoinStart(s, room) ==
  /\ Connected(s)
  /\ started["join"] < MaxJoins
  /\ started' = [started EXCEPT !["join"] = @ + 1]
  /\ LET cur == CurrentRoom(s)
         t == [s |-> s, room |-> room, cur |-> cur, pc |-> "addPart", ts |-> now,
               leaveId |-> 0, joinId |-> 0,
               was |-> room \in DOMAIN participants /\ sock[s].user \in participants[room]]
     IN IF cur = room
        THEN /\ evs' = Emit(s, "joinRoomSuccess")           \* already in room
             /\ UNCHANGED <<sock, joinT>>
        ELSE IF cur # ""
        THEN /\ sock' = SocketLeave(s, cur)
             /\ joinT' = joinT \cup {[t EXCEPT !.pc = "leaveCreate"]}
             /\ UNCHANGED evs
        ELSE /\ joinT' = joinT \cup {t}
             /\ UNCHANGED <<sock, evs>>
  /\ UNCHANGED <<msgs, readers, participants, bus, countMap, quietConn, readVars, aiVars,
                 authT, leaveT, discT, timers>>

\* const leaveMessage = await Message.create(leaveMsg)
JoinLeaveCreate(t) ==
  /\ t.pc = "leaveCreate"
  /\ \E ok \in BOOLEAN :
       IF ok
       THEN /\ Save(Doc(t.cur, "system", "none", t.ts))
            /\ joinT' = (joinT \ {t}) \cup {[t EXCEPT !.pc = "leaveSend", !.leaveId = Len(msgs) + 1]}
            /\ UNCHANGED evs
       ELSE JoinFail(t) /\ UNCHANGED <<msgs, readers>>
  /\ UNCHANGED <<participants, bus, sock, countMap, started, quietConn, readVars, aiVars,
                 authT, leaveT, discT, timers>>

\* await producer.send(... leaveMessage); socket.to(currentRoom).emit("userLeft")
JoinLeaveSend(t) ==
  /\ t.pc = "leaveSend"
  /\ \E ok \in BOOLEAN :
       IF ok
       THEN /\ bus' = bus \cup {t.leaveId}
            /\ joinT' = (joinT \ {t}) \cup {[t EXCEPT !.pc = "addPart"]}
            /\ UNCHANGED evs
       ELSE JoinFail(t) /\ UNCHANGED bus
  /\ UNCHANGED <<msgs, readers, participants, sock, countMap, started, quietConn, readVars, aiVars,
                 authT, leaveT, discT, timers>>

\* const room = await Room.findByIdAndUpdate(roomId, { $addToSet: { participants } });
\* if (!room) throw; socket.join(roomId)
JoinAddPart(t) ==
  /\ t.pc = "addPart"
  /\ \E ok \in BOOLEAN :
       IF ok /\ t.room \in DOMAIN participants
       THEN /\ participants' = [participants EXCEPT ![t.room] = @ \cup {sock[t.s].user}]
            /\ sock' = SocketJoin(t.s, t.room)
            /\ joinT' = (joinT \ {t}) \cup {[t EXCEPT !.pc = "joinCreate", !.ts = now]}
            /\ UNCHANGED evs
       ELSE JoinFail(t) /\ UNCHANGED <<participants, sock>>
  /\ UNCHANGED <<msgs, readers, bus, countMap, started, quietConn, readVars, aiVars,
                 authT, leaveT, discT, timers>>

\* const joinMessage = await Message.create(joinMsg)
JoinCreate(t) ==
  /\ t.pc = "joinCreate"
  /\ \E ok \in BOOLEAN :
       IF ok
       THEN /\ Save(Doc(t.room, "system", "none", t.ts))
            /\ joinT' = (joinT \ {t}) \cup {[t EXCEPT !.pc = "load", !.joinId = Len(msgs) + 1]}
            /\ UNCHANGED evs
       ELSE JoinFail(t) /\ UNCHANGED <<msgs, readers>>
  /\ UNCHANGED <<participants, bus, sock, countMap, started, quietConn, readVars, aiVars,
                 authT, leaveT, discT, timers>>

\* const messageLoadResult = await loadMessages(socket, roomId);
\* roomMessageCountMap.set(roomId, 0)
JoinLoad(t) ==
  /\ t.pc = "load"
  /\ \E won \in BOOLEAN :
       IF won
       THEN /\ countMap' = [countMap EXCEPT ![sock[t.s].gw][t.room] = 0]
            /\ joinT' = (joinT \ {t}) \cup {[t EXCEPT !.pc = "streams"]}
            /\ readT' = readT \cup LoadReaderUpdate(t.s, t.room, 0, BATCH_SIZE)
            /\ UNCHANGED evs
       ELSE JoinFail(t) /\ UNCHANGED <<countMap, readT>>
  /\ UNCHANGED <<msgs, readers, participants, bus, sock, started, quietConn, aiVars,
                 marked, pcache, resp, authT, leaveT, discT, timers>>

\* activeStreams of joinRoomSuccess: for each entry of the sessions hash with
\* session.room === roomId, { _id: session.messageId, content: session.content }
ActiveStreams(room) ==
  {[mid |-> m, content |-> streams[m].content] : m \in {k \in DOMAIN streams : streams[k].room = room}}

\* await redisClient.hGetAll(STREAMING_SESSIONS_KEY); socket.emit("joinRoomSuccess")
JoinStreams(t) ==
  /\ t.pc = "streams"
  /\ \E ok \in BOOLEAN :
       IF ok
       THEN /\ evs' = Emit(t.s, "joinRoomSuccess")
            /\ joinT' = (joinT \ {t}) \cup {[t EXCEPT !.pc = "joinSend"]}
       ELSE JoinFail(t)
  /\ UNCHANGED <<msgs, readers, participants, bus, sock, countMap, started, quietConn, readVars, aiVars,
                 authT, leaveT, discT, timers>>

\* await producer.send(... joinMessage); io.to(roomId).emit("participantsUpdate")
JoinSend(t) ==
  /\ t.pc = "joinSend"
  /\ \E ok \in BOOLEAN :
       IF ok
       THEN /\ bus' = bus \cup {t.joinId}
            /\ joinT' = joinT \ {t}
            /\ UNCHANGED evs
       ELSE JoinFail(t) /\ UNCHANGED bus
  /\ UNCHANGED <<msgs, readers, participants, sock, countMap, started, quietConn, readVars, aiVars,
                 authT, leaveT, discT, timers>>

\* --------------------------------------------------------- leaveRoom handler
LeaveFail(t) == /\ evs' = Emit(t.s, "error")
                /\ leaveT' = leaveT \ {t}

\* socket.on("leaveRoom", async (roomId)) up to await Room.findOne
LeaveStart(s, room) ==
  /\ Connected(s)
  /\ started["leave"] < MaxLeaves
  /\ started' = [started EXCEPT !["leave"] = @ + 1]
  /\ IF CurrentRoom(s) = "" \/ CurrentRoom(s) # room
     THEN UNCHANGED leaveT                                   \* not in that room: return
     ELSE leaveT' = leaveT \cup {[s |-> s, room |-> room, pc |-> "findRoom", ts |-> 0, id |-> 0]}
  /\ UNCHANGED <<msgs, readers, participants, bus, sock, evs, countMap, quietConn, readVars, aiVars,
                 authT, joinT, discT, timers>>

\* const room = await Room.findOne({ _id: roomId, participants }); socket.leave(roomId)
LeaveFind(t) ==
  /\ t.pc = "findRoom"
  /\ \E ok \in BOOLEAN :
       IF ~ok THEN LeaveFail(t) /\ UNCHANGED sock
       ELSE IF t.room \in DOMAIN participants /\ sock[t.s].user \in participants[t.room]
       THEN /\ sock' = SocketLeave(t.s, t.room)
            /\ leaveT' = (leaveT \ {t}) \cup {[t EXCEPT !.pc = "create", !.ts = now]}
            /\ UNCHANGED evs
       ELSE /\ leaveT' = leaveT \ {t}
            /\ UNCHANGED <<sock, evs>>
  /\ UNCHANGED <<msgs, readers, participants, bus, countMap, started, quietConn, readVars, aiVars,
                 authT, joinT, discT, timers>>

\* const leaveMessage = await Message.create({ room: roomId, type: "system" })
LeaveCreate(t) ==
  /\ t.pc = "create"
  /\ \E ok \in BOOLEAN :
       IF ok
       THEN /\ Save(Doc(t.room, "system", "none", t.ts))
            /\ leaveT' = (leaveT \ {t}) \cup {[t EXCEPT !.pc = "send", !.id = Len(msgs) + 1]}
            /\ UNCHANGED evs
       ELSE LeaveFail(t) /\ UNCHANGED <<msgs, readers>>
  /\ UNCHANGED <<participants, bus, sock, countMap, started, quietConn, readVars, aiVars,
                 authT, joinT, discT, timers>>

\* await producer.send(... leaveMessage)
LeaveSend(t) ==
  /\ t.pc = "send"
  /\ \E ok \in BOOLEAN :
       IF ok
       THEN /\ bus' = bus \cup {t.id}
            /\ leaveT' = (leaveT \ {t}) \cup {[t EXCEPT !.pc = "pull"]}
            /\ UNCHANGED evs
       ELSE LeaveFail(t) /\ UNCHANGED bus
  /\ UNCHANGED <<msgs, readers, participants, sock, countMap, started, quietConn, readVars, aiVars,
                 authT, joinT, discT, timers>>

\* await Room.findByIdAndUpdate(roomId, { $pull: { participants } });
\* roomMessageCountMap.delete(roomId)
LeavePull(t) ==
  /\ t.pc = "pull"
  /\ \E ok \in BOOLEAN :
       IF ok
       THEN /\ participants' = [participants EXCEPT ![t.room] = @ \ {sock[t.s].user}]
            /\ countMap' = [countMap EXCEPT ![sock[t.s].gw][t.room] = 0]
            /\ leaveT' = leaveT \ {t}
            /\ UNCHANGED evs
       ELSE LeaveFail(t) /\ UNCHANGED <<participants, countMap>>
  /\ UNCHANGED <<msgs, readers, bus, sock, started, quietConn, readVars, aiVars,
                 authT, joinT, discT, timers>>

\* --------------------------------------------------- io.use authentication
\* next(new Error(...)): the handshake is refused, the socket never connects
AuthReject(t) == /\ sock' = [sock EXCEPT ![t.s].state = "closed"]
                 /\ authT' = authT \ {t}

\* a client opens a connection with a valid token of user u on gateway g:
\* io.use(async (socket, next)) up to await io.in(decoded.user.id).fetchSockets()
AuthStart(s, u, g) ==
  /\ sock[s].state = "free"
  /\ started["auth"] < MaxAuths
  /\ started' = [started EXCEPT !["auth"] = @ + 1]
  /\ sock' = [sock EXCEPT ![s] = [state |-> "auth", user |-> u, gw |-> g, rooms |-> <<>>]]
  /\ authT' = authT \cup {[s |-> s, pc |-> "fetch"]}
  /\ UNCHANGED <<msgs, readers, participants, bus, evs, countMap, quietConn, readVars, aiVars,
                 joinT, leaveT, discT, timers>>

\* io.in(userId).fetchSockets(): the sockets of every instance in the user's channel
ExistingSockets(u) == {e \in Socks : Connected(e) /\ u \in Range(sock[e].rooms)}

\* for (const esocket of existingSockets) { esocket.emit("duplicate_login");
\*   setTimeout(..., DUPLICATE_LOGIN_TIMEOUT) }
AuthFetch(t) ==
  /\ t.pc = "fetch"
  /\ \E ok \in BOOLEAN :
       IF ok
       THEN LET ex == ExistingSockets(sock[t.s].user)
            IN /\ evs' = [e \in Socks |-> IF e \in ex THEN evs[e] \cup {"duplicate_login"} ELSE evs[e]]
               /\ timers' = timers \cup {[target |-> e, due |-> now + DUPLICATE_LOGIN_TIMEOUT,
                                          by |-> t.s] : e \in ex}
               /\ authT' = (authT \ {t}) \cup {[t EXCEPT !.pc = "validate"]}
               /\ UNCHANGED sock
       ELSE AuthReject(t) /\ UNCHANGED <<evs, timers>>
  /\ UNCHANGED <<msgs, readers, participants, bus, countMap, started, quietConn, readVars, aiVars,
                 joinT, leaveT, discT>>

AuthValidateAfterEviction(t) ==
  /\ t.pc = "validate"
  /\ \A tm \in timers : tm.by # t.s
  /\ \E valid \in BOOLEAN :
       IF valid
       THEN /\ authT' = (authT \ {t}) \cup {[t EXCEPT !.pc = "findUser"]}
            /\ UNCHANGED sock
       ELSE AuthReject(t)
  /\ UNCHANGED <<msgs, readers, participants, bus, evs, countMap, started, quietConn, readVars, aiVars,
                 joinT, leaveT, discT, timers>>

\* const validationResult = await SessionService.validateSession(userId, sessionId)
AuthValidate(t) ==
  /\ t.pc = "validate"
  /\ \E valid \in BOOLEAN :
       IF valid
       THEN /\ authT' = (authT \ {t}) \cup {[t EXCEPT !.pc = "findUser"]}
            /\ UNCHANGED sock
       ELSE AuthReject(t)
  /\ UNCHANGED <<msgs, readers, participants, bus, evs, countMap, started, quietConn, readVars, aiVars,
                 joinT, leaveT, discT, timers>>

\* const user = await User.findById(decoded.user.id)
AuthFindUser(t) ==
  /\ t.pc = "findUser"
  /\ \E found \in BOOLEAN :
       IF found
       THEN /\ authT' = (authT \ {t}) \cup {[t EXCEPT !.pc = "activity"]}
            /\ UNCHANGED sock
       ELSE AuthReject(t)
  /\ UNCHANGED <<msgs, readers, participants, bus, evs, countMap, started, quietConn, readVars, aiVars,
                 joinT, leaveT, discT, timers>>

\* await SessionService.updateLastActivity(userId); next();
\* io.on("connection"): if (socket.user) socket.join(socket.user.id)
AuthActivity(t) ==
  /\ t.pc = "activity"
  /\ \E ok \in BOOLEAN :
       IF ok
       THEN /\ sock' = [sock EXCEPT ![t.s].state = "connected", ![t.s].rooms = <<sock[t.s].user>>]
            /\ authT' = authT \ {t}
       ELSE AuthReject(t)
  /\ UNCHANGED <<msgs, readers, participants, bus, evs, countMap, started, quietConn, readVars, aiVars,
                 joinT, leaveT, discT, timers>>

CloseKeepRooms(s, reason) ==
  /\ sock' = [sock EXCEPT ![s].state = "closed"]
  /\ discT' = discT \cup {[s |-> s, reason |-> reason, pc |-> "streams",
                           was |-> CurrentRoom(s), room |-> "", ts |-> 0, id |-> 0]}

\* ------------------------------------------------------- disconnect handler
\* the socket closes: socket.io empties socket.rooms, then emits "disconnect";
\* (was: the room the connection was in when it closed, kept for the properties)
\* socket.on("disconnect", async (reason)) up to await redisClient.hGetAll
Close(s, reason) ==
  /\ sock' = [sock EXCEPT ![s].state = "closed", ![s].rooms = <<>>]
  /\ discT' = discT \cup {[s |-> s, reason |-> reason, pc |-> "streams",
                           was |-> CurrentRoom(s), room |-> "", ts |-> 0, id |-> 0]}

\* the client or the transport closes the connection
Disconnect(s, reason) ==
  /\ Connected(s)
  /\ started["disc"] < MaxDiscs
  /\ started' = [started EXCEPT !["disc"] = @ + 1]
  /\ Close(s, reason)
  /\ UNCHANGED <<msgs, readers, participants, bus, evs, countMap, quietConn, readVars, aiVars,
                 authT, joinT, leaveT, timers>>

\* session.userId of a stored session: sessionData is { room, aiType, content,
\* messageId, timestamp, lastUpdate, reactions } and has no userId (undefined)
SessionUser(session) == ""

\* await hGetAll; for each session with session.userId === socket.user.id, hDel;
\* then the room is read from socket.rooms: a room is left only if roomId &&
\* reason is neither "client namespace disconnect" nor "duplicate_login"
DiscStreams(t) ==
  /\ t.pc = "streams"
  /\ \E ok \in BOOLEAN :
       IF ok
       THEN /\ streams' = [k \in {m \in DOMAIN streams : SessionUser(streams[m]) # sock[t.s].user}
                             |-> streams[k]]
            /\ IF CurrentRoom(t.s) # ""
                  /\ t.reason \notin {"client namespace disconnect", "duplicate_login"}
               THEN discT' = (discT \ {t}) \cup
                      {[t EXCEPT !.pc = "create", !.room = CurrentRoom(t.s), !.ts = now]}
               ELSE discT' = discT \ {t}
       ELSE /\ discT' = discT \ {t}                          \* logged
            /\ UNCHANGED streams
  /\ UNCHANGED <<msgs, readers, participants, bus, sock, evs, countMap, started, quietConn,
                 readVars, aiT, aiLog, authT, joinT, leaveT, timers>>

\* const leaveMessage = await Message.create({ room: roomId, type: "system" })
\* (this and the two steps after it need a room in socket.rooms, which
\* socket.io has emptied before it emits "disconnect")
DiscCreate(t) ==
  /\ t.pc = "create"
  /\ \E ok \in BOOLEAN :
       IF ok
       THEN /\ Save(Doc(t.room, "system", "none", t.ts))
            /\ discT' = (discT \ {t}) \cup {[t EXCEPT !.pc = "send", !.id = Len(msgs) + 1]}
       ELSE discT' = discT \ {t} /\ UNCHANGED <<msgs, readers>>
  /\ UNCHANGED <<participants, bus, sock, evs, countMap, started, quietConn, readVars, aiVars,
                 authT, joinT, leaveT, timers>>

\* await producer.send(... leaveMessage)
DiscSend(t) ==
  /\ t.pc = "send"
  /\ \E ok \in BOOLEAN :
       IF ok
       THEN bus' = bus \cup {t.id} /\ discT' = (discT \ {t}) \cup {[t EXCEPT !.pc = "pull"]}
       ELSE discT' = discT \ {t} /\ UNCHANGED bus
  /\ UNCHANGED <<msgs, readers, participants, sock, evs, countMap, started, quietConn,
                 readVars, aiVars, authT, joinT, leaveT, timers>>

\* await Room.findByIdAndUpdate(roomId, { $pull: { participants } });
\* roomMessageCountMap.delete(roomId)
DiscPull(t) ==
  /\ t.pc = "pull"
  /\ discT' = discT \ {t}
  /\ \E ok \in BOOLEAN :
       IF ok /\ t.room \in Rooms
       THEN /\ participants' = [participants EXCEPT ![t.room] = @ \ {sock[t.s].user}]
            /\ countMap' = [countMap EXCEPT ![sock[t.s].gw][t.room] = 0]
       ELSE UNCHANGED <<participants, countMap>>
  /\ UNCHANGED <<msgs, readers, bus, sock, evs, started, quietConn, readVars, aiVars,
                 authT, joinT, leaveT, timers>>

TimerFireBlind(tm) ==
  /\ tm \in timers
  /\ now >= tm.due
  /\ timers' = timers \ {tm}
  /\ evs' = [evs EXCEPT ![tm.target] = @ \cup {"session_ended"}]
  /\ Close(tm.target, "server namespace disconnect")
  /\ UNCHANGED <<msgs, readers, participants, bus, countMap, started, quietConn, readVars, aiVars,
                 authT, joinT, leaveT>>

\* setTimeout(() => { esocket.emit("session_ended"); esocket.disconnect(true) },
\*            DUPLICATE_LOGIN_TIMEOUT)
TimerFire(tm) ==
  /\ tm \in timers
  /\ now >= tm.due
  /\ timers' = timers \ {tm}
  /\ IF Connected(tm.target)
     THEN /\ evs' = Emit(tm.target, "session_ended")
          /\ Close(tm.target, "server namespace disconnect")
     ELSE UNCHANGED <<evs, sock, discT>>
  /\ UNCHANGED <<msgs, readers, participants, bus, countMap, started, quietConn, readVars, aiVars,
                 authT, joinT, leaveT>>

\* ------------------------------------------------------ malformed payloads
\* the inbound actions; those of Destructuring take their payload apart in the
\* parameter list: async ({ roomId, before, limit = BATCH_SIZE }) => { try { ...
Inbound == {"fetchPreviousMessages", "chatMessage", "joinRoom", "leaveRoom",
            "markMessagesAsRead", "messageReaction", "force_login"}

Destructuring == {"fetchPreviousMessages", "markMessagesAsRead", "messageReaction",
                  "force_login"}

\* the gateway process of socket s exits: its sockets close, its handlers stop
ProcessExit(s) ==
  LET dead == {x \in Socks : Connected(x) /\ sock[x].gw = sock[s].gw}
  IN /\ sock' = [x \in Socks |-> IF x \in dead
                                 THEN [sock[x] EXCEPT !.state = "closed", !.rooms = <<>>]
                                 ELSE sock[x]]
     /\ fetchT' = {t \in fetchT : t.s \notin dead}
     /\ chatT' = {t \in chatT : t.s \notin dead}
     /\ joinT' = {t \in joinT : t.s \notin dead}
     /\ leaveT' = {t \in leaveT : t.s \notin dead}
     /\ discT' = {t \in discT : t.s \notin dead}

\* the client emits `action` with no payload (undefined or null).
\* Destructuring handlers: binding the parameters throws before the try block
\* is entered, the async function returns a rejected promise that socket.io
\* drops: an unhandled rejection, which the runtime either only reports or
\* ends the process for. chatMessage: if (!messageData) throw, inside the try.
\* leaveRoom: currentRoom !== roomId, return.
MalformedPayload(s, action) ==
  /\ Connected(s)
  /\ IF action \in Destructuring
     THEN \E exits \in BOOLEAN :
            IF exits
            THEN ProcessExit(s) /\ UNCHANGED evs
            ELSE UNCHANGED <<sock, evs, fetchT, chatT, joinT, leaveT, discT>>
     ELSE /\ action \in {"chatMessage", "leaveRoom"}
          /\ evs' = IF action = "chatMessage" THEN Emit(s, "error") ELSE evs
          /\ UNCHANGED <<sock, fetchT, chatT, joinT, leaveT, discT>>
  /\ UNCHANGED <<msgs, readers, participants, cache, bus, consumed, inbox, loaded, consT,
                 countMap, started, ticks, now, httpVars, authT, timers, readVars, aiVars>>

\* ------------------------------------------------ history and cache: runs
\* A store of n1 messages of r1, optionally wrapped by an oldest and a newest
\* message of r2; up to `stride` consecutive messages share a timestamp.
StoreOf(n1, wrap, stride) ==
  LET n == n1 + (IF wrap THEN 2 ELSE 0)
  IN [i \in 1..n |-> Doc(IF wrap /\ (i = 1 \/ i = n) THEN "r2" ELSE "r1",
                         "text", "u1", (i + stride - 1) \div stride)]

StoreSizes == {0, 1, 3, BATCH_SIZE - 1, BATCH_SIZE, BATCH_SIZE + 1, BATCH_SIZE + MaxLimitOver + 1}

Limits == {0, 2, BATCH_SIZE, BATCH_SIZE + MaxLimitOver}

Befores == {2, 3, BATCH_SIZE \div 2, BATCH_SIZE + 3}

\* two authenticated connections, one per gateway, both joined to r1
InitSocks ==
  [s \in Socks |-> [state |-> "connected", user |-> IF s = 1 THEN "u1" ELSE "u2",
                    gw |-> IF s = 1 THEN 1 ELSE 2, rooms |-> <<"r1">>]]

\* ------------------------------------------------------ routes/api/rooms.js
\* everything the room routes leave alone
restVars == <<msgs, readers, cache, bus, consumed, sock, inbox, loaded, fetchT, chatT, consT,
              countMap, started, ticks, now, connVars, readVars, aiVars, reactions>>

\* generateCacheKey(req.query): page, pageSize, sortField and sortOrder at
\* their defaults, search as sent; the requesting user is no part of the key
generateCacheKey(search) == <<"rooms:list", 0, 10, "createdAt", "desc", search>>

\* filter.name = { $regex: search, $options: "i" }; a room's name is its id here
Filtered(search) == {r \in DOMAIN roomInfo : search = "" \/ search = r}

\* .sort({ createdAt: -1 })
RECURSIVE ByCreatedDesc(_)
ByCreatedDesc(S) ==
  IF S = {} THEN <<>>
  ELSE LET r == CHOOSE x \in S : \A y \in S : roomInfo[y].createdAt <= roomInfo[x].createdAt
       IN <<r>> \o ByCreatedDesc(S \ {r})

\* one element of safeRooms, computed for req.user.id
SafeRoom(r, u) ==
  [id |-> r, hasPassword |-> roomInfo[r].password # "", creator |-> roomInfo[r].creator,
   participants |-> participants[r], isCreator |-> roomInfo[r].creator = u]

\* responseData of GET /rooms: countDocuments and find read one state here
ResponseData(search, u) ==
  LET rs == ByCreatedDesc(Filtered(search))
  IN [data |-> [i \in 1..Len(rs) |-> SafeRoom(rs[i], u)], total |-> Len(rs)]

NoData == [data |-> <<>>, total |-> 0]

HttpTask(kind, u, room, pw, search, pc) ==
  [n |-> httpN + 1, kind |-> kind, user |-> u, room |-> room, pw |-> pw, search |-> search,
   pc |-> pc, data |-> NoData, had |-> FALSE]

\* res.status(status).json(data): the request is over
HttpReply(t, status, data) ==
  /\ httpT' = httpT \ {t}
  /\ replies' = replies \cup {[n |-> t.n, kind |-> t.kind, user |-> t.user, room |-> t.room,
                               search |-> t.search, status |-> status, data |-> data]}

HttpGoto(t, pc) == /\ httpT' = (httpT \ {t}) \cup {[t EXCEPT !.pc = pc]}
                   /\ UNCHANGED replies

HttpStart(t) ==
  /\ httpN < MaxHttp
  /\ httpN' = httpN + 1
  /\ httpT' = httpT \cup {t}
  /\ UNCHANGED <<listCache, roomInfo, replies, participants, evs, restVars>>

\* router.get("/", [limiter, auth], ...) up to the first await
ListStart(u, search) == HttpStart(HttpTask("list", u, "", "", search, "cacheGet"))

\* const cachedData = await redisClient.get(cacheKey); if (cachedData) return res.json(cachedData)
ListCacheGet(t) ==
  /\ t.kind = "list" /\ t.pc = "cacheGet"
  /\ \E ok \in BOOLEAN :
       IF ~ok THEN HttpReply(t, 500, NoData)
       ELSE IF generateCacheKey(t.search) \in DOMAIN listCache
       THEN HttpReply(t, 200, listCache[generateCacheKey(t.search)])
       ELSE HttpGoto(t, "find")
  /\ UNCHANGED <<listCache, roomInfo, httpN, participants, evs, restVars>>

\* await Room.countDocuments(filter); await Room.find(filter)...lean(); safeRooms
ListFind(t) ==
  /\ t.kind = "list" /\ t.pc = "find"
  /\ \E ok \in BOOLEAN :
       IF ok
       THEN /\ httpT' = (httpT \ {t}) \cup
                 {[t EXCEPT !.pc = "setEx", !.data = ResponseData(t.search, t.user)]}
            /\ UNCHANGED replies
       ELSE HttpReply(t, 500, NoData)
  /\ UNCHANGED <<listCache, roomInfo, httpN, participants, evs, restVars>>

\* await redisClient.setEx(cacheKey, 600, responseData); res.json(responseData)
ListSetEx(t) ==
  /\ t.kind = "list" /\ t.pc = "setEx"
  /\ \E ok \in BOOLEAN :
       IF ok
       THEN /\ listCache' = [k \in DOMAIN listCache \cup {generateCacheKey(t.search)} |->
                               IF k = generateCacheKey(t.search) THEN t.data ELSE listCache[k]]
            /\ HttpReply(t, 200, t.data)
       ELSE /\ HttpReply(t, 500, NoData)
            /\ UNCHANGED listCache
  /\ UNCHANGED <<roomInfo, httpN, participants, evs, restVars>>

\* the 600 s TTL of a rooms:list key runs out
ListExpire(key) ==
  /\ key \in DOMAIN listCache
  /\ listCache' = [k \in DOMAIN listCache \ {key} |-> listCache[k]]
  /\ UNCHANGED <<httpT, roomInfo, replies, httpN, participants, evs, restVars>>

\* invalidateRoomListCache(): delPattern("rooms:list:*"); an error is logged
invalidateRoomListCache(t, status) ==
  /\ \E ok \in BOOLEAN : listCache' = IF ok THEN <<>> ELSE listCache
  /\ HttpReply(t, status, NoData)

\* router.post("/", auth, ...) up to the first await; name is the new room's id
CreateStart(u, room, pw) ==
  /\ room \notin DOMAIN roomInfo
  /\ \A t \in httpT : t.kind = "create" => t.room # room
  /\ HttpStart(HttpTask("create", u, room, pw, "", "save"))

\* const savedRoom = await newRoom.save()
CreateSave(t) ==
  /\ t.kind = "create" /\ t.pc = "save"
  /\ \E ok \in BOOLEAN :
       IF ok
       THEN /\ roomInfo' = [r \in DOMAIN roomInfo \cup {t.room} |->
                              IF r = t.room
                              THEN [creator |-> t.user, password |-> t.pw,
                                    createdAt |-> Cardinality(DOMAIN roomInfo) + 1]
                              ELSE roomInfo[r]]
            /\ participants' = [r \in DOMAIN participants \cup {t.room} |->
                                  IF r = t.room THEN {t.user} ELSE participants[r]]
            /\ HttpGoto(t, "populate")
       ELSE /\ HttpReply(t, 500, NoData)
            /\ UNCHANGED <<roomInfo, participants>>
  /\ UNCHANGED <<listCache, httpN, evs, restVars>>

\* await Room.findById(savedRoom._id).populate(...); io.to("room-list").emit
\* ("roomCreated"): no socket of the runs is in room-list
CreatePopulate(t) ==
  /\ t.kind = "create" /\ t.pc = "populate"
  /\ \E ok \in BOOLEAN : IF ok THEN HttpGoto(t, "invalidate") ELSE HttpReply(t, 500, NoData)
  /\ UNCHANGED <<listCache, roomInfo, httpN, participants, evs, restVars>>

\* await invalidateRoomListCache(); res.status(201).json(...)
CreateInvalidate(t) ==
  /\ t.kind = "create" /\ t.pc = "invalidate"
  /\ invalidateRoomListCache(t, 201)
  /\ UNCHANGED <<roomInfo, httpN, participants, evs, restVars>>

\* router.post("/:roomId/join", auth, ...) up to the first await
HttpJoinStart(u, room, pw) == HttpStart(HttpTask("join", u, room, pw, "", "find"))

\* const room = await Room.findById(roomId).select("+password"); 404 if absent
HttpJoinFind(t) ==
  /\ t.kind = "join" /\ t.pc = "find"
  /\ \E ok \in BOOLEAN :
       IF ~ok THEN HttpReply(t, 500, NoData)
       ELSE IF t.room \notin DOMAIN roomInfo THEN HttpReply(t, 404, NoData)
       ELSE /\ httpT' = (httpT \ {t}) \cup
                 {[t EXCEPT !.had = t.user \in participants[t.room],
                            !.pc = IF roomInfo[t.room].password # "" THEN "check" ELSE "save"]}
            /\ UNCHANGED replies
  /\ UNCHANGED <<listCache, roomInfo, httpN, participants, evs, restVars>>

\* if (room.hasPassword) { if (!(await room.checkPassword(password))) 403 }
HttpJoinCheck(t) ==
  /\ t.kind = "join" /\ t.pc = "check"
  /\ \E ok \in BOOLEAN :
       IF ~ok THEN HttpReply(t, 500, NoData)
       ELSE IF t.pw # roomInfo[t.room].password THEN HttpReply(t, 403, NoData)
       ELSE HttpGoto(t, "save")
  /\ UNCHANGED <<listCache, roomInfo, httpN, participants, evs, restVars>>

\* if (!room.participants.includes(userId)) { push; await room.save() }
HttpJoinSave(t) ==
  /\ t.kind = "join" /\ t.pc = "save"
  /\ \E ok \in BOOLEAN :
       IF ok
       THEN /\ participants' = IF t.had THEN participants
                               ELSE [participants EXCEPT ![t.room] = @ \cup {t.user}]
            /\ HttpGoto(t, "populate")
       ELSE /\ HttpReply(t, 500, NoData)
            /\ UNCHANGED participants
  /\ UNCHANGED <<listCache, roomInfo, httpN, evs, restVars>>

\* await room.populate(...); io.to(roomId).emit("roomUpdate", ...)
HttpJoinPopulate(t) ==
  /\ t.kind = "join" /\ t.pc = "populate"
  /\ \E ok \in BOOLEAN :
       IF ok
       THEN /\ evs' = [e \in Socks |-> IF e \in InRoom(t.room, 0)
                                       THEN evs[e] \cup {"roomUpdate"} ELSE evs[e]]
            /\ HttpGoto(t, "invalidate")
       ELSE /\ HttpReply(t, 500, NoData)
            /\ UNCHANGED evs
  /\ UNCHANGED <<listCache, roomInfo, httpN, participants, restVars>>

\* await invalidateRoomListCache(); res.json(...)
HttpJoinInvalidate(t) ==
  /\ t.kind = "join" /\ t.pc = "invalidate"
  /\ invalidateRoomListCache(t, 200)
  /\ UNCHANGED <<roomInfo, httpN, participants, evs, restVars>>

\* the rooms of the runs: r1 open, created by u1; r2 created by u2 with a
\* password; no HTTP request in flight, no list cached, no reaction stored
InitHttp ==
  /\ httpT = {}
  /\ listCache = <<>>
  /\ roomInfo = [r \in Rooms |-> IF r = "r1"
                                 THEN [creator |-> "u1", password |-> "", createdAt |-> 1]
                                 ELSE [creator |-> "u2", password |-> "pw", createdAt |-> 2]]
  /\ replies = {}
  /\ httpN = 0
  /\ reactions = {}

InitRest ==
  /\ readers = [i \in DOMAIN msgs |-> <<>>]
  /\ now = (IF msgs = <<>> THEN 0 ELSE msgs[Len(msgs)].ts) + 1
  /\ participants = [r \in Rooms |-> IF r = "r1" THEN {"u1", "u2"} ELSE {"u2"}]
  /\ bus = {}
  /\ consumed = {}
  /\ sock = InitSocks
  /\ inbox = [s \in Socks |-> {}]
  /\ evs = [s \in Socks |-> {}]
  /\ loaded = <<>>
  /\ fetchT = {}
  /\ chatT = {}
  /\ consT = {}
  /\ \E c \in 0..(GHOST_THRESHOLD - 1) :
       countMap = [g \in Gateways |-> [r \in Rooms |-> IF r = "r1" THEN c ELSE 0]]
  /\ started = [k \in Kinds |-> IF k = "join" THEN MaxJoins - 1 ELSE 0]   \* r1 was joined before
  /\ authT = {}
  /\ joinT = {}
  /\ leaveT = {}
  /\ discT = {}
  /\ timers = {}
  /\ readT = {}
  /\ marked = {}
  /\ pcache = <<>>
  /\ resp = {}
  /\ aiT = {}
  /\ streams = <<>>
  /\ aiLog = <<>>
  /\ ticks = 0
  /\ InitHttp

\* history pages: any store, the cache empty or holding a lone written-back message
InitPage ==
  /\ \E n1 \in StoreSizes, wrap \in BOOLEAN, stride \in 1..MaxStride :
       msgs = StoreOf(n1, wrap, stride)
  /\ \E stale \in BOOLEAN :
       cache = IF stale /\ Matching("r1", 0) # {}
               THEN LET m == Newest(Matching("r1", 0))
                    IN [r \in {"r1"} |->
                          Kept(WriteBackEntry(<<m>>), Ts(m),
                               IF Fresh("r1", WriteBackEntry(<<m>>)) THEN 0 ELSE Ts(m))]
               ELSE <<>>
  /\ InitRest

NextPage ==
  \/ \E s \in Socks, room \in Rooms, before \in Befores, limit \in Limits :
       FetchStart(s, room, before, limit)
  \/ \E t \in fetchT : FetchRoom(t)
  \/ \E t \in fetchT : FetchQueryDirect(t)
  \/ \E room \in Rooms : Expire(room)

SpecPage == InitPage /\ [][NextPage]_vars

\* history requests while the clock passes the load timeout
NextTimeout ==
  \/ \E before \in {0, 3}, limit \in {2, BATCH_SIZE} : FetchStart(1, "r1", before, limit)
  \/ \E t \in fetchT : FetchRoom(t)
  \/ \E t \in fetchT : FetchQueryDirect(t)
  \/ \E t \in fetchT : FetchCacheGet(t)
  \/ \E t \in fetchT : FetchQueryMiss(t)
  \/ \E t \in fetchT : FetchCacheSet(t)
  \/ \E t \in fetchT : FetchTimeout(t)
  \/ \E t \in fetchT : FetchLate(t)
  \/ ticks < MaxTicksShort /\ \E d \in {1, MESSAGE_LOAD_TIMEOUT} : Tick(d)

SpecTimeout == InitPage /\ [][NextTimeout]_vars

\* the latest-window cache under sends, bus deliveries and reads
InitCache ==
  /\ \E n1 \in {1, BATCH_SIZE - 1, BATCH_SIZE, BATCH_SIZE + 1} : msgs = StoreOf(n1, FALSE, 1)
  /\ cache = <<>>
  /\ InitRest

ChatSteps ==
  \/ \E t \in chatT : ChatRoom(t)
  \/ \E t \in chatT : ChatValidate(t)
  \/ \E t \in chatT : ChatFindFile(t)
  \/ \E t \in chatT : ChatSave(t)
  \/ \E t \in chatT : ChatPublish(t)
  \/ \E t \in chatT : ChatActivity(t)
  \/ \E t \in chatT : ChatGhostGen(t)
  \/ \E t \in chatT : ChatGhostSave(t)
  \/ \E t \in chatT : ChatGhostPublish(t)
  \/ \E t \in chatT : ChatCacheGet(t)
  \/ \E t \in chatT : ChatCacheSet(t)

ConsumeSteps ==
  \/ \E g \in Gateways, id \in bus : ConsumeStart(g, id)
  \/ \E c \in consT : ConsumeCacheGet(c)
  \/ \E c \in consT : ConsumeCacheSet(c)

NextCache ==
  \/ \E limit \in {2, BATCH_SIZE, BATCH_SIZE + MaxLimitOver} : FetchStart(1, "r1", 0, limit)
  \/ \E t \in fetchT : FetchRoom(t)
  \/ \E t \in fetchT : FetchCacheGet(t)
  \/ \E t \in fetchT : FetchQueryMiss(t)
  \/ \E t \in fetchT : FetchCacheSet(t)
  \/ Expire("r1")
  \/ ChatStart(2, "r1", "text", "plain")
  \/ \E t \in chatT : ChatRoom(t)
  \/ \E t \in chatT : ChatValidate(t)
  \/ \E t \in chatT : ChatSave(t)
  \/ \E t \in chatT : ChatPublish(t)
  \/ \E t \in chatT : ChatActivity(t)
  \/ \E t \in chatT : ChatGhostGen(t)
  \/ \E t \in chatT : ChatGhostSave(t)
  \/ \E t \in chatT : ChatGhostPublish(t)
  \/ \E t \in chatT : ChatCacheGet(t)
  \/ \E t \in chatT : ChatCacheSet(t)
  \/ \E id \in bus : ConsumeStart(1, id)
  \/ \E c \in consT : ConsumeCacheGet(c)
  \/ \E c \in consT : ConsumeCacheSet(c)

SpecCache == InitCache /\ [][NextCache]_vars

\* connections: one authenticated connection of u1 that has joined no room yet,
\* one connection still to be opened; no room has a participant
InitConn ==
  /\ msgs = <<>>
  /\ readers = <<>>
  /\ cache = <<>>
  /\ now = 1
  /\ participants = [r \in Rooms |-> {}]
  /\ bus = {}
  /\ consumed = {}
  /\ sock = [s \in Socks |-> IF s = 1
                             THEN [state |-> "connected", user |-> "u1", gw |-> 1, rooms |-> <<"u1">>]
                             ELSE [state |-> "free", user |-> "", gw |-> 0, rooms |-> <<>>]]
  /\ inbox = [s \in Socks |-> {}]
  /\ evs = [s \in Socks |-> {}]
  /\ loaded = <<>>
  /\ fetchT = {}
  /\ chatT = {}
  /\ consT = {}
  /\ countMap = [g \in Gateways |-> [r \in Rooms |-> 0]]
  /\ started = [k \in Kinds |-> 0]
  /\ authT = {}
  /\ joinT = {}
  /\ leaveT = {}
  /\ discT = {}
  /\ timers = {}
  /\ readT = {}
  /\ marked = {}
  /\ pcache = <<>>
  /\ resp = {}
  /\ aiT = {}
  /\ streams = <<>>
  /\ aiLog = <<>>
  /\ ticks = 0
  /\ InitHttp

JoinSteps ==
  \/ \E t \in joinT : JoinLeaveCreate(t)
  \/ \E t \in joinT : JoinLeaveSend(t)
  \/ \E t \in joinT : JoinAddPart(t)
  \/ \E t \in joinT : JoinCreate(t)
  \/ \E t \in joinT : JoinLoad(t)
  \/ \E t \in joinT : JoinStreams(t)
  \/ \E t \in joinT : JoinSend(t)

LeaveSteps ==
  \/ \E t \in leaveT : LeaveFind(t)
  \/ \E t \in leaveT : LeaveCreate(t)
  \/ \E t \in leaveT : LeaveSend(t)
  \/ \E t \in leaveT : LeavePull(t)

AuthSteps ==
  \/ \E t \in authT : AuthFetch(t)
  \/ \E t \in authT : AuthValidate(t)
  \/ \E t \in authT : AuthFindUser(t)
  \/ \E t \in authT : AuthActivity(t)

\* joinRoom and leaveRoom calls of the connected socket
NextJoin ==
  \/ \E room \in Rooms : started["join"] < MaxJoinsConn /\ JoinStart(1, room)
  \/ JoinSteps
  \/ \E room \in Rooms : LeaveStart(1, room)
  \/ LeaveSteps

SpecJoin == InitConn /\ [][NextJoin]_vars

\* the room routes next to the socket: users list the rooms, u2 creates r3,
\* u1 joins r2 over HTTP or over its connection
NextRooms ==
  \/ \E u \in Users, search \in {"", "r2"} : ListStart(u, search)
  \/ \E t \in httpT : ListCacheGet(t)
  \/ \E t \in httpT : ListFind(t)
  \/ \E t \in httpT : ListSetEx(t)
  \/ \E search \in {"", "r2"} : ListExpire(generateCacheKey(search))
  \/ \E pw \in {"", "pw"} : CreateStart("u2", "r3", pw)
  \/ \E t \in httpT : CreateSave(t)
  \/ \E t \in httpT : CreatePopulate(t)
  \/ \E t \in httpT : CreateInvalidate(t)
  \/ \E room \in {"r2", "r4"}, pw \in {"pw", "bad"} : HttpJoinStart("u1", room, pw)
  \/ \E t \in httpT : HttpJoinFind(t)
  \/ \E t \in httpT : HttpJoinCheck(t)
  \/ \E t \in httpT : HttpJoinSave(t)
  \/ \E t \in httpT : HttpJoinPopulate(t)
  \/ \E t \in httpT : HttpJoinInvalidate(t)
  \/ started["join"] < MaxJoinsRooms /\ httpT = {} /\ JoinStart(1, "r2")
  \/ \E t \in joinT : JoinLeaveCreate(t)
  \/ \E t \in joinT : JoinLeaveSend(t)
  \/ \E t \in joinT : JoinAddPart(t)
  \/ \E t \in joinT : JoinCreate(t)
  \/ \E t \in joinT : JoinLoad(t)
  \/ \E t \in joinT : JoinStreams(t)
  \/ \E t \in joinT : JoinSend(t)

SpecRooms == InitConn /\ [][NextRooms]_vars

\* the connected socket calls joinRoom three times, handlers overlapping
NextRejoin ==
  \/ \E room \in Rooms : JoinStart(1, room)
  \/ JoinSteps

SpecRejoin == InitConn /\ [][NextRejoin]_vars

\* a second connection authenticates while the first joins a room, time passes
NextLogin ==
  \/ started["join"] < MaxJoinsConn /\ JoinStart(1, "r1")
  \/ JoinSteps
  \/ \E u \in Users, g \in Gateways : AuthStart(2, u, g)
  \/ AuthSteps
  \/ \E s \in Socks, reason \in {"client namespace disconnect", "transport close"} :
       Disconnect(s, reason)
  \/ \E t \in discT : DiscStreams(t)
  \/ \E tm \in timers : TimerFire(tm)
  \/ ticks < MaxTicksShort /\ \E d \in {1, DUPLICATE_LOGIN_TIMEOUT} : Tick(d)

SpecLogin == InitConn /\ [][NextLogin]_vars

\* fanout: sends and a leave on either gateway, the consumer group delivering
InitFanout ==
  /\ msgs = <<>>
  /\ cache = <<>>
  /\ InitRest

NextFanout ==
  \/ /\ started["chat"] + started["file"] = 0
     /\ \E type \in {"text", "file"} : ChatStart(2, "r1", type, "plain")
  \/ ChatSteps
  \/ LeaveStart(1, "r1")
  \/ LeaveSteps
  \/ ConsumeSteps

\* fair bus delivery: a record on the topic is eventually handed to a consumer
\* of the group and its eachMessage runs to completion
SpecFanout == InitFanout /\ [][NextFanout]_vars /\ WF_vars(ConsumeSteps)

\* read receipts: marks, a join-time load and a history request over a small
\* store holding messages of both rooms
InitRead ==
  /\ msgs = StoreOf(1, TRUE, 1)
  /\ cache = <<>>
  /\ InitRest

MarkSets == {{}, {1, 2}}

NextRead ==
  \/ \E room \in Rooms, ids \in MarkSets : MarkStart(1, room, ids)
  \/ \E t \in readT : MarkUpdate(t)
  \/ \E t \in readT : MarkDone(t)
  \/ JoinStart(1, "r2")
  \/ JoinSteps
  \/ \E t \in readT : LoadUpdate(t)
  \/ \E before \in {0, 3} : ReqStart("u1", "r1", before)
  \/ \E t \in readT : ReqCacheGet(t)
  \/ \E t \in readT : ReqFind(t)
  \/ \E t \in readT : ReqUpdate(t)
  \/ \E t \in readT : ReqCacheSet(t)
  \/ \E t \in readT : ReqSend(t)

SpecRead == InitRead /\ [][NextRead]_vars

\* acting on messages: connection 1 (u1, a participant of r1 only) marks and
\* reacts to messages of both rooms, and history requests arrive for any user
NextActs ==
  \/ \E room \in Rooms : MarkStart(1, room, {1, 2})
  \/ \E t \in readT : MarkUpdate(t)
  \/ \E t \in readT : MarkDone(t)
  \/ \E id \in {1, 2}, type \in {"add", "remove"} : ReactStart(1, id, "like", type)
  \/ \E t \in readT : ReactFind(t)
  \/ \E t \in readT : ReactApply(t)
  \/ \E u \in Users, room \in Rooms : ReqStart(u, room, 0)
  \/ \E t \in readT : ReqCacheGet(t)
  \/ \E t \in readT : ReqFind(t)
  \/ \E t \in readT : ReqUpdate(t)
  \/ \E t \in readT : ReqCacheSet(t)
  \/ \E t \in readT : ReqSend(t)

SpecActs == InitRead /\ [][NextActs]_vars

\* AI streaming: two connections mention the same AI in one room; the steps of
\* chatMessage that follow the awaited handleAIResponse are left unscheduled
InitAI ==
  /\ msgs = <<>>
  /\ cache = <<>>
  /\ InitRest

AISteps ==
  \/ \E a \in aiT : AIBegin(a)
  \/ \E a \in aiT : AIChunk(a)
  \/ \E a \in aiT : AIChunkSet(a)
  \/ \E a \in aiT : AIComplete(a)
  \/ \E a \in aiT : AICompSave(a)
  \/ \E a \in aiT : AICompSend(a)
  \/ \E a \in aiT : AIFail(a)
  \/ \E a \in aiT : AICollabError(a)
  \/ \E a \in aiT : AIOnError(a)
  \/ \E a \in aiT : AICatch(a)

NextAI ==
  \/ ChatStart(2, "r1", "text", "mention")
  \/ \E t \in chatT : ChatRoom(t)
  \/ \E t \in chatT : ChatValidate(t)
  \/ \E t \in chatT : ChatSave(t)
  \/ \E t \in chatT : ChatPublish(t)
  \/ AISteps
  \/ ticks < MaxTicksShort /\ Tick(1)

SpecAI == InitAI /\ [][NextAI]_vars

\* chatMessages of every shape: participant or not, supported type or not,
\* plain, empty, answer-command and mentioning content
NextReject ==
  \/ /\ chatT = {}
     /\ \E s \in Socks, room \in Rooms, type \in {"text", "file", "image"},
           content \in {"plain", "answer", "empty"} : ChatStart(s, room, type, content)
  \/ \E s \in Socks : ChatStart(s, "r2", "text", "mention")
  \/ \E t \in chatT : ChatRoom(t)
  \/ \E t \in chatT : ChatValidate(t)
  \/ \E t \in chatT : ChatFindFile(t)
  \/ \E t \in chatT : ChatSave(t)
  \/ \E t \in chatT : ChatPublish(t)
  \/ \E t \in chatT : ChatActivity(t)
  \/ \E t \in chatT : ChatCacheGet(t)
  \/ \E t \in chatT : ChatCacheSet(t)

SpecReject == InitAI /\ [][NextReject]_vars

\* one connection sends a file message and then a text message to its room
NextOrder ==
  \/ started["file"] = 0 /\ started["chat"] = 0 /\ ChatStart(2, "r1", "file", "plain")
  \/ started["file"] = 1 /\ ChatStart(2, "r1", "text", "plain")
  \/ ChatSteps
  \/ ConsumeSteps

SpecOrder == InitAI /\ [][NextOrder]_vars

\* every publisher of chat_messages: user messages, the scripted reply, an AI
\* reply, and the system messages of joinRoom and leaveRoom
NextBus ==
  \/ chatT = {} /\ joinT = {} /\ leaveT = {} /\ ChatStart(2, "r1", "text", "plain")
  \/ chatT = {} /\ joinT = {} /\ leaveT = {} /\ started["ai"] = 0
       /\ ChatStart(2, "r1", "text", "mention")
  \/ \E t \in chatT : ChatRoom(t)
  \/ \E t \in chatT : ChatValidate(t)
  \/ \E t \in chatT : ChatSave(t)
  \/ \E t \in chatT : ChatPublish(t)
  \/ \E t \in chatT : ChatActivity(t)
  \/ \E t \in chatT : ChatGhostGen(t)
  \/ \E t \in chatT : ChatGhostSave(t)
  \/ \E t \in chatT : ChatGhostPublish(t)
  \/ \E t \in chatT : ChatCacheGet(t)
  \/ \E t \in chatT : ChatCacheSet(t)
  \/ AISteps
  \/ chatT = {} /\ joinT = {} /\ leaveT = {} /\ JoinStart(1, "r2")
  \/ JoinSteps
  \/ chatT = {} /\ joinT = {} /\ leaveT = {} /\ LeaveStart(1, "r2")
  \/ LeaveSteps

SpecBus == InitAI /\ [][NextBus]_vars

\* actions that arrive without a payload, among well-formed messages and
\* history requests
NextPayload ==
  \/ \E s \in Socks, action \in Inbound \ {"joinRoom"} : MalformedPayload(s, action)
  \/ ChatStart(2, "r1", "text", "plain")
  \/ \E t \in chatT : ChatRoom(t)
  \/ \E t \in chatT : ChatValidate(t)
  \/ \E t \in chatT : ChatSave(t)
  \/ \E t \in chatT : ChatPublish(t)
  \/ \E t \in chatT : ChatActivity(t)
  \/ \E t \in chatT : ChatGhostGen(t)
  \/ \E t \in chatT : ChatGhostSave(t)
  \/ \E t \in chatT : ChatGhostPublish(t)
  \/ \E t \in chatT : ChatCacheGet(t)
  \/ \E t \in chatT : ChatCacheSet(t)
  \/ \E before \in {0, 3} : FetchStart(1, "r1", before, 2)
  \/ \E t \in fetchT : FetchRoom(t)
  \/ \E t \in fetchT : FetchQueryDirect(t)
  \/ \E t \in fetchT : FetchCacheGet(t)
  \/ \E t \in fetchT : FetchQueryMiss(t)
  \/ \E t \in fetchT : FetchCacheSet(t)

SpecPayload == InitAI /\ [][NextPayload]_vars

\* connection 1 joins r2 while an AI reply to a mention in r2 is streaming
NextStreams ==
  \/ ChatStart(2, "r2", "text", "mention")
  \/ \E t \in chatT : ChatRoom(t)
  \/ \E t \in chatT : ChatValidate(t)
  \/ \E t \in chatT : ChatSave(t)
  \/ \E t \in chatT : ChatPublish(t)
  \/ \E a \in aiT : AIBegin(a)
  \/ \E a \in aiT : AIChunk(a)
  \/ \E a \in aiT : AIChunkSet(a)
  \/ \E a \in aiT : AIComplete(a)
  \/ \E a \in aiT : AICompSave(a)
  \/ \E a \in aiT : AICompSend(a)
  \/ (\E a \in aiT : a.pc = "gen") /\ JoinStart(1, "r2")
  \/ JoinSteps

SpecStreams == InitAI /\ [][NextStreams]_vars

\* chatMessages that mention AI names: one name twice, two names, a name
\* outside the whitelist, none
NextMentions ==
  \/ /\ started["ai"] + started["chat"] < MaxMentioning
     /\ chatT = {}
     /\ \E content \in {"twice", "two", "unknown", "plain"} : ChatStart(2, "r1", "text", content)
  \/ \E t \in chatT : ChatRoom(t)
  \/ \E t \in chatT : ChatValidate(t)
  \/ \E t \in chatT : ChatSave(t)
  \/ \E t \in chatT : ChatPublish(t)
  \/ AISteps

SpecMentions == InitAI /\ [][NextMentions]_vars

\* the latest-window cache over time: a room with one stored message, the
\* cache empty; a text and a file message are sent one after the other while
\* time passes
InitTTL ==
  /\ msgs = StoreOf(1, FALSE, 1)
  /\ cache = <<>>
  /\ InitRest

NextTTL ==
  \/ chatT = {} /\ \E type \in {"text", "file"} : ChatStart(2, "r1", type, "plain")
  \/ ChatSteps
  \/ \E d \in {TTL_MS - 1, TTL_MS} : Tick(d)

SpecTTL == InitTTL /\ [][NextTTL]_vars

\* a connection mentions an AI and closes while sessions are in the store
NextClean ==
  \/ ChatStart(1, "r1", "text", "mention")
  \/ \E t \in chatT : ChatRoom(t)
  \/ \E t \in chatT : ChatValidate(t)
  \/ \E t \in chatT : ChatSave(t)
  \/ \E t \in chatT : ChatPublish(t)
  \/ AISteps
  \/ \E reason \in {"client namespace disconnect", "transport close"} : Disconnect(1, reason)
  \/ \E t \in discT : DiscStreams(t)

SpecClean == InitAI /\ [][NextClean]_vars

\* ------------------------------------------------------------ properties

\* C5: every latest-window cache entry holds at most BATCH_SIZE (50) messages.
C5_CacheWindowBound ==
  \A r \in DOMAIN cache : Len(cache[r].messages) <= BATCH_SIZE

\* C6: the messages of every latest-window cache entry are strictly ascending
\* by timestamp (so none occurs twice).
C6_CacheWindowAscending ==
  \A r \in DOMAIN cache :
    \A i \in 1..(Len(cache[r].messages) - 1) :
      Ts(cache[r].messages[i]) < Ts(cache[r].messages[i + 1])

\* C7 as stated: an entry rebuilt on a cache miss has hasMore true iff the room
\* had at least 50 persisted messages at the rebuild.
C7_HasMoreIffAtLeastBatch ==
  \A r \in DOMAIN cache :
    cache[r].src = "rebuild" => (cache[r].hasMore <=> cache[r].nAt >= BATCH_SIZE)

\* C7 amended: an entry rebuilt on a cache miss has hasMore true iff the room
\* had more persisted messages than the request's limit when the store was read.
C7_HasMoreIffMoreThanLimit ==
  \A r \in DOMAIN cache :
    cache[r].src = "rebuild" => (cache[r].hasMore <=> cache[r].nAt > cache[r].lim)

\* a rebuild with the default limit from a room of exactly 50 messages
C7_Witness ==
  \E r \in DOMAIN cache :
    /\ cache[r].src = "rebuild"
    /\ cache[r].nAt = BATCH_SIZE
    /\ cache[r].lim = BATCH_SIZE
    /\ ~cache[r].hasMore

\* the page a fetchPreviousMessages with `before` answered, against the store
PageRight(p) ==
  LET cand == {i \in 1..p.nAt : msgs[i].room = p.room /\ msgs[i].ts < p.before}
      k == Cardinality(cand)
      m == p.res.messages
  IN /\ Len(m) = Min2(p.limit, k)
     /\ Range(m) \subseteq cand
     /\ Cardinality(Range(m)) = Len(m)
     /\ \A i \in Range(m), j \in cand \ Range(m) : msgs[j].ts <= msgs[i].ts
     /\ \A a, b \in 1..Len(m) : a < b => msgs[m[a]].ts <= msgs[m[b]].ts
     /\ p.res.hasMore <=> (k > p.limit)
     /\ p.res.oldestTimestamp = (IF m = <<>> THEN 0 ELSE msgs[m[1]].ts)

\* C8: a fetchPreviousMessages with `before` = t and limit L answers with the
\* min(L, k) newest persisted messages of the room older than t, ascending,
\* hasMore iff k > L, oldestTimestamp that of the first one; and the step that
\* answers leaves every cache entry as it was.
C8_Pagination ==
  /\ [](\A s \in DOMAIN loaded : loaded[s].before # 0 => PageRight(loaded[s]))
  /\ [][(\E t \in fetchT : t.pc = "queryDirect" /\ t \notin fetchT') => cache' = cache]_vars

\* a page cut at the limit with older messages left: hasMore
C8_Witness ==
  \E s \in DOMAIN loaded :
    /\ loaded[s].before # 0
    /\ loaded[s].limit > 0
    /\ Len(loaded[s].res.messages) = loaded[s].limit
    /\ loaded[s].res.hasMore
    /\ cache # <<>>

\* C2 as stated (its first obligation): whenever a connection B of user U has
\* authenticated while an older connection A of U is live, A has received
\* duplicate_login, whatever joinRoom/leaveRoom calls A made before.
C2_DuplicateLoginNotified ==
  \A a \in Socks, b \in Socks :
    (a < b /\ Connected(a) /\ Connected(b) /\ sock[a].user = sock[b].user)
      => "duplicate_login" \in evs[a]

\* C4 as stated: a user is in at most one room's persisted participant set and
\* a connection is attached to at most one room.
C4_OneRoomPerUser ==
  /\ \A u \in Users : Cardinality({r \in Rooms : u \in participants[r]}) <= 1
  /\ \A s \in Socks : Cardinality(Range(sock[s].rooms) \cap Rooms) <= 1

\* C1: every text, file or system message published on chat_messages is
\* eventually taken off the topic by one consumer of the group, and at that
\* step it is emitted as `message` to every connection then joined to its
\* room, on whichever gateway the connection or the consumer is.
C1_Fanout ==
  /\ \A id \in 1..MaxIds : (id \in bus) ~> (id \notin bus)
  /\ [][\A id \in bus \ bus' :
          msgs[id].type # "ai" =>
            \A s \in Socks :
              (sock[s].state = "connected" /\ msgs[id].room \in Range(sock[s].rooms))
                => id \in inbox'[s]]_vars

\* a message sent through gateway 2 was consumed by gateway 1's consumer and
\* reached the connection attached to gateway 2
C1_Witness ==
  \E c \in consT :
    /\ c.g = 1
    /\ msgs[c.id].type \in {"text", "file"}
    /\ msgs[c.id].sender = "u2"
    /\ sock[2].gw = 2
    /\ Connected(2)
    /\ c.id \in inbox[2]
    /\ c.id \in inbox[1]

\* C9: a user occurs at most once in the readers of every message, and exactly
\* once in the readers of every message of the given room named in a
\* completed markMessagesAsRead of that user.
C9_ReadersOnce ==
  /\ \A id \in DOMAIN readers, u \in Users : Count(readers[id], u) <= 1
  /\ \A m \in marked :
       \A id \in m.ids \cap DOMAIN msgs :
         msgs[id].room = m.room => Count(readers[id], m.user) = 1

\* two completed marks of one user name the same message of the given room
C9_Witness ==
  \E m1 \in marked, m2 \in marked :
    /\ m1.n # m2.n
    /\ m1.user = m2.user
    /\ m1.room = m2.room
    /\ \E id \in m1.ids \cap m2.ids : msgs[id].room = m1.room /\ Count(readers[id], m1.user) = 1

\* the events emitted for one messageId, in emission order
EventsOf(mid) == SelectSeq(aiLog, LAMBDA e : e.mid = mid)

RECURSIVE Concat(_)
Concat(evts) == IF evts = <<>> THEN <<>>
                ELSE Append(Concat(SubSeq(evts, 1, Len(evts) - 1)), evts[Len(evts)].delta)

ChunksOf(mid, upto) ==
  SelectSeq(SubSeq(aiLog, 1, upto), LAMBDA e : e.mid = mid /\ e.ev = "aiMessageChunk")

\* C3: for every messageId the events emitted so far are one aiMessageStart,
\* then aiMessageChunk events, then at most one aiMessageComplete or
\* aiMessageError, after which nothing follows.
C3_EventSequence ==
  \A i \in DOMAIN aiLog :
    LET L == EventsOf(aiLog[i].mid)
    IN /\ L[1].ev = "aiMessageStart"
       /\ \A j \in 2..Len(L) :
            /\ L[j].ev # "aiMessageStart"
            /\ L[j - 1].ev \in {"aiMessageStart", "aiMessageChunk"}

\* C10: for every messageId ended by aiMessageComplete the deltas of its chunk
\* events, concatenated in emission order, are the content of the persisted
\* ai message, and every chunk's fullContent is the concatenation of the
\* deltas emitted for the messageId up to and including it.
C10_ChunksMakeContent ==
  \A i \in DOMAIN aiLog :
    /\ aiLog[i].ev = "aiMessageComplete" =>
         Concat(ChunksOf(aiLog[i].mid, Len(aiLog))) = msgs[aiLog[i].id].content
    /\ (aiLog[i].ev = "aiMessageChunk"
          /\ \E j \in DOMAIN aiLog : aiLog[j].ev = "aiMessageComplete" /\ aiLog[j].mid = aiLog[i].mid)
         => aiLog[i].full = Concat(ChunksOf(aiLog[i].mid, i))

Terminal == {"aiMessageComplete", "aiMessageError"}

\* C11: the streaming-session store holds an entry for a messageId while a
\* generation for it is streaming (started, no terminal handler entered yet),
\* and holds none in any state after a terminal event for that messageId.
C11_SessionLifetime ==
  /\ \A a \in aiT : a.pc \in {"gen", "chunkSet"} => a.mid \in DOMAIN streams
  /\ \A i \in DOMAIN aiLog : aiLog[i].ev \in Terminal => aiLog[i].mid \notin DOMAIN streams

\* the streaming session of messageId mid was started by a mention sent by u
StartedBy(mid, u) ==
  \E i \in DOMAIN aiLog :
    aiLog[i].ev = "aiMessageStart" /\ aiLog[i].mid = mid /\ msgs[aiLog[i].cid].sender = u

\* C12: when the disconnect handler of a connection finishes, the
\* streaming-session store holds no session started by a mention of that
\* connection's user.
C12_DisconnectCleanup ==
  [][\A t \in discT :
       (\A t2 \in discT' : t2.s # t.s)
         => \A mid \in DOMAIN streams' : ~StartedBy(mid, sock[t.s].user)]_vars

\* C13: a cache get or set that fails never fails the operation: the cache
\* update of a chatMessage (its message persisted and published already)
\* sends nothing to the sender, and a fetchPreviousMessages without `before`
\* whose handler ends at a cache operation has answered previousMessagesLoaded
\* and sent no error.
C13_CacheFailureTolerated ==
  [][/\ \A t \in chatT :
          (t.pc \in {"cacheGet", "cacheSet"} /\ t \notin chatT') => evs'[t.s] = evs[t.s]
     /\ \A t \in fetchT :
          (t.before = 0 /\ t.pc \in {"cacheGet", "cacheSet"}
             /\ \A t2 \in fetchT' : t2.s # t.s)
            => (t.s \in DOMAIN loaded' /\ evs'[t.s] = evs[t.s])]_vars

\* the chatMessage handler t returns in this step before message.save()
EndsInValidation(t) ==
  /\ t.pc \in {"findRoom", "validate", "findFile"}
  /\ t \notin chatT'
  /\ Cardinality(chatT') < Cardinality(chatT)

\* a chatMessage handler that returns before the save leaves store, bus, cache,
\* AI streams and connections alone
RejectedFrame ==
  /\ msgs' = msgs /\ bus' = bus /\ cache' = cache
  /\ aiT' = aiT /\ streams' = streams /\ aiLog' = aiLog
  /\ sock' = sock /\ inbox' = inbox

C15_ArrivalOrder ==
  \A t1, t2 \in chatT :
    (t1.s = t2.s /\ t1.room = t2.room /\ t1.n < t2.n /\ t2.id # 0)
      => /\ t1.id # 0 => t1.id < t2.id
         /\ (t2.id \in bus \cup consumed /\ t1.id # 0) => t1.id \in bus \cup consumed

\* C16: every record published on chat_messages carries a message that was
\* in the durable store already when the publish was issued.
C16_PublishedPersisted ==
  [][\A id \in bus' \ bus : id \in DOMAIN msgs]_vars

\* a user message, a system message and an AI message are on the bus
C16_Witness ==
  /\ \E id \in bus : id \in DOMAIN msgs /\ msgs[id].type \in {"text", "file"}
  /\ \E id \in bus : id \in DOMAIN msgs /\ msgs[id].type = "system"
  /\ \E id \in bus : id \in DOMAIN msgs /\ msgs[id].type = "ai"

\* C17: the disconnect handling of a connection closed by the duplicate-login
\* grace timer never comes to create a system message, and its handler leaves
\* store, bus and participants as they are.
C17_EvictionSilent ==
  [][\A t \in discT :
       t.reason = "server namespace disconnect"
         => /\ \A t2 \in discT' : t2.s = t.s => t2.pc = "streams"
            /\ t \notin discT'
                 => (msgs' = msgs /\ bus' = bus /\ participants' = participants)]_vars

\* connection 1 had joined r1, was closed by the timer, and its disconnect
\* handler has returned: u1 is still a participant of r1
C17_Witness ==
  /\ sock[1].state = "closed"
  /\ discT = {}
  /\ {"joinRoomSuccess", "session_ended"} \subseteq evs[1]
  /\ "u1" \in participants["r1"]
  /\ \E i \in DOMAIN msgs : msgs[i].room = "r1" /\ msgs[i].type = "system"

\* C18: when the disconnect handler of a connection that was in a room and
\* lost its transport returns, it has persisted and published a system
\* message for that room and removed the user from the room's participants.
C18_ImplicitLeave ==
  [][\A t \in discT :
       (t.reason = "transport close" /\ t.was \in Rooms
          /\ \A t2 \in discT' : t2.s # t.s)
         => /\ t.id \in DOMAIN msgs'
            /\ msgs'[t.id].room = t.was /\ msgs'[t.id].type = "system"
            /\ t.id \in bus' \cup consumed'
            /\ sock[t.s].user \notin participants'[t.was]]_vars

\* C19: a joinRoom(roomId) of a connection that is in roomId only re-emits
\* joinRoomSuccess: it starts no join procedure and changes neither the
\* connection's rooms nor store, bus, participants or counter.
C19_JoinIdempotent ==
  [][started'["join"] # started["join"]
       => /\ \A t \in joinT' \ joinT : t.room \notin Range(sock[t.s].rooms)
          /\ (\E s \in Socks, r \in Rooms :
                r \in Range(sock[s].rooms) /\ evs' = Emit(s, "joinRoomSuccess") /\ joinT' = joinT)
               => (sock' = sock /\ msgs' = msgs /\ bus' = bus
                     /\ participants' = participants /\ countMap' = countMap /\ cache' = cache)]_vars

\* C20: a leaveRoom(roomId) of a connection that is not in roomId changes
\* nothing and sends nothing; of a connection that is in roomId it runs the
\* leave procedure, which, when it returns without an error, has detached the
\* connection, removed the user from the participants, persisted and published
\* its system message and cleared the room's counter.
C20_LeaveRoom ==
  [][/\ \A s \in Socks, r \in Rooms :
          LeaveStart(s, r)
            => IF r \in Range(sock[s].rooms)
               THEN leaveT' # leaveT
               ELSE /\ leaveT' = leaveT /\ sock' = sock /\ evs' = evs
                    /\ msgs' = msgs /\ bus' = bus /\ participants' = participants
     /\ \A t \in leaveT :
          (t.pc = "pull" /\ t \notin leaveT' /\ "error" \notin evs'[t.s])
            => /\ t.room \notin Range(sock'[t.s].rooms)
               /\ sock[t.s].user \notin participants'[t.room]
               /\ t.id \in DOMAIN msgs /\ msgs[t.id].room = t.room /\ msgs[t.id].type = "system"
               /\ t.id \in bus \cup consumed
               /\ countMap'[sock[t.s].gw][t.room] = 0]_vars

\* C21: when the load timer of a fetchPreviousMessages expires with the query
\* still pending, the handler ends with `error` to the caller, the connection
\* stays open, and the query's late result produces no previousMessagesLoaded
\* and no cache write.
C21_LoadTimeout ==
  [][\A t \in fetchT :
       /\ (t.pc \in {"queryDirect", "queryMiss"} /\ now >= t.due /\ t \notin fetchT')
            => /\ evs' = Emit(t.s, "error")
               /\ [t EXCEPT !.pc = "abandoned"] \in fetchT'
               /\ sock' = sock /\ loaded' = loaded /\ cache' = cache
       /\ (t.pc = "abandoned" /\ t \notin fetchT')
            => (loaded' = loaded /\ cache' = cache /\ evs' = evs /\ sock' = sock)]_vars

\* a query was abandoned at the timeout: its caller got `error`, is still
\* connected and has no page
C21_Witness ==
  \E t \in fetchT :
    /\ t.pc = "abandoned" /\ now >= t.due
    /\ "error" \in evs[t.s] /\ Connected(t.s)
    /\ t.s \notin DOMAIN loaded

\* C22: whenever aiMessageError is emitted for an invocation, that invocation
\* has persisted no ai message and published none.
C22_ErrorPersistsNothing ==
  [][\A a \in aiT :
       (/\ a.pc \in {"errDel", "catchDel"}
        /\ Len(aiLog') = Len(aiLog) + 1
        /\ aiLog'[Len(aiLog')].ev = "aiMessageError"
        /\ aiLog'[Len(aiLog')].mid = a.mid /\ aiLog'[Len(aiLog')].cid = a.cid)
         => (a.id \notin DOMAIN msgs /\ a.id \notin bus \cup consumed)]_vars

\* C23: two invocations of handleAIResponse never have the same messageId,
\* so two streams in flight never share a session entry.
C23_MessageIdUnique ==
  \A a1, a2 \in aiT : a1.cid # a2.cid => a1.mid # a2.mid

\* C24: an inbound action that arrives without a payload is reported to the
\* connection that sent it and to no other, and no connection is closed.
C24_FailuresReported ==
  [][\A s \in Socks, action \in Inbound \ {"joinRoom", "leaveRoom"} :
       MalformedPayload(s, action)
         => /\ sock' = sock
            /\ "error" \in evs'[s]
            /\ \A x \in Socks \ {s} : evs'[x] = evs[x]]_vars

\* C25: a handshake that has scheduled the eviction of the existing
\* connection can always take its next step, whatever the state of the grace
\* timer, and a timer that is due can always fire, whatever the state of the
\* handshake.
C25_AcceptanceIndependent ==
  /\ \A t \in authT :
       t.pc # "fetch" => ENABLED (AuthValidate(t) \/ AuthFindUser(t) \/ AuthActivity(t))
  /\ \A tm \in timers : now >= tm.due => ENABLED TimerFire(tm)

\* connection 2 is accepted while the timer it set for connection 1 has not
\* run out and connection 1 is still connected
C25_Witness ==
  /\ Connected(2)
  /\ \E tm \in timers : tm.by = 2 /\ tm.target = 1 /\ now < tm.due /\ Connected(1)

\* C26: a grace timer that runs out for a connection that has ended already
\* does nothing: no session_ended is sent to it and no disconnect handling is
\* started for it.
C26_StaleTimerSilent ==
  [][\A tm \in timers :
       (tm \notin timers' /\ ~Connected(tm.target))
         => (evs' = evs /\ sock' = sock /\ discT' = discT)]_vars

\* connection 1 was challenged, ended on its own, and the timer has run out
\* since: it never got session_ended
C26_Witness ==
  /\ "duplicate_login" \in evs[1]
  /\ "session_ended" \notin evs[1]
  /\ sock[1].state = "closed"
  /\ timers = {}
  /\ now > DUPLICATE_LOGIN_TIMEOUT

\* what a stream of the room has sent so far
SentSoFar(a) == IF a.pc = "chunkSet" THEN Take(a.acc, Len(a.acc) - 1) ELSE a.acc

\* the streams of a room that are in flight: started and still generating
InFlight(room) == {a \in aiT : a.room = room /\ a.pc \in {"gen", "chunkSet"}}

\* C27: the activeStreams a joinRoom answers with are exactly the streams in
\* flight for that room at that moment, with the content accumulated so far:
\* every generating stream of the room is listed with what it has sent, and
\* every listed entry belongs to a reply of the room that has not ended yet.
C27_ActiveStreamsExact ==
  [][\A t \in joinT :
       (t.pc = "streams" /\ [t EXCEPT !.pc = "joinSend"] \in joinT')
         => /\ \A a \in InFlight(t.room) :
                 [mid |-> a.mid, content |-> SentSoFar(a)] \in ActiveStreams(t.room)
            /\ \A e \in ActiveStreams(t.room) :
                 \E a \in aiT : a.room = t.room /\ a.mid = e.mid]_vars

\* C28: a text chatMessage whose content is empty after trimming is rejected:
\* nothing is persisted, published or cached, and the sender gets `error`.
C28_EmptyTextReported ==
  [][\A t \in chatT :
       (EndsInValidation(t) /\ t.pc = "validate" /\ t.type = "text" /\ t.content = "empty")
         => (RejectedFrame /\ evs' = Emit(t.s, "error"))]_vars

\* the whitelisted AI names a content mentions as @name
Mentioned(content) ==
  {n \in AI_TYPES : \E i \in 1..Len(Words(content)) : Words(content)[i] = At(n)}

\* the content without its @ai words
Without(content, ai) ==
  LET ws == Words(content)
      keep == {i \in 1..Len(ws) : ws[i] # At(ai)}
      RECURSIVE Pick(_)
      Pick(i) == IF i > Len(ws) THEN <<>>
                 ELSE IF i \in keep THEN <<ws[i]>> \o Pick(i + 1) ELSE Pick(i + 1)
  IN Pick(1)

\* C29: for every accepted chatMessage the AI orchestrator is started exactly
\* once for each distinct whitelisted AI name mentioned in the content, never
\* for another name, with the content minus that mention as its query.
C29_OncePerMention ==
  [][/\ \A a \in aiT :
          LET t == Caller(a)
          IN a.ai \in Mentioned(t.content) /\ a.query = Without(t.content, a.ai)
     /\ \A t \in chatT :
          (t.pc = "ai" /\ \A t2 \in chatT' : ~(t2.n = t.n /\ t2.pc = "ai"))
            => /\ {t.asked[i] : i \in 1..Len(t.asked)} = Mentioned(t.content)
               /\ Len(t.asked) = Cardinality(Mentioned(t.content))
     /\ \A t \in chatT :
          (t.pc = "publish" /\ \E t2 \in chatT' : t2.n = t.n /\ t2.pc = "activity")
            => Mentioned(t.content) = {}]_vars

\* C30: a cache entry that differs from the newest persisted messages of its
\* room has differed for at most the TTL (600 s), also while messages keep
\* being sent to the room: by then the key has expired.
C30_StaleWithinTTL ==
  \A r \in DOMAIN cache : cache[r].since # 0 => now - cache[r].since <= TTL_MS

\* what a write-back for message m stores, given the messages it read
Rewritten(read, m) ==
  LET a == read \o <<m>>
      first == IF Len(a) > BATCH_SIZE THEN Len(a) - BATCH_SIZE + 1 ELSE 1
  IN [i \in 1..(Len(a) - first + 1) |-> a[first + i - 1]]

\* the entry e holds the window arr with its derived fields and a fresh TTL
WrittenBack(e, arr) ==
  /\ e.messages = arr
  /\ e.hasMore = (Len(arr) = BATCH_SIZE)
  /\ e.oldestTimestamp = Ts(arr[1])
  /\ e.exp = now + CACHE_TTL * 1000

\* C31: each cache update for a new message m reads the room's entry (empty if
\* absent or expired) and rewrites it to those messages followed by m, the
\* oldest dropped so that at most 50 remain, with hasMore = (length = 50),
\* oldestTimestamp = timestamp of the first remaining message and a fresh TTL.
C31_WriteBack ==
  [][/\ \A t \in chatT :
          /\ (t.pc = "cacheGet" /\ \E t2 \in chatT' : t2.n = t.n /\ t2.pc = "cacheSet")
               => \E t2 \in chatT' :
                    /\ t2.n = t.n
                    /\ t2.arr = Rewritten(IF t.room \in DOMAIN cache
                                          THEN cache[t.room].messages ELSE <<>>, t.id)
          /\ (t.pc = "cacheSet" /\ t \notin chatT' /\ cache' # cache)
               => /\ t.room \in DOMAIN cache' /\ WrittenBack(cache'[t.room], t.arr)
                  /\ Len(t.arr) <= BATCH_SIZE
                  /\ \A r \in DOMAIN cache \ {t.room} : r \in DOMAIN cache' /\ cache'[r] = cache[r]
     /\ \A c \in consT :
          /\ (c.pc = "cacheGet" /\ \E c2 \in consT' : c2.g = c.g /\ c2.id = c.id /\ c2.pc = "cacheSet")
               => \E c2 \in consT' :
                    /\ c2.g = c.g /\ c2.id = c.id
                    /\ c2.arr = Rewritten(IF msgs[c.id].room \in DOMAIN cache
                                          THEN cache[msgs[c.id].room].messages ELSE <<>>, c.id)
          /\ (c.pc = "cacheSet" /\ c \notin consT' /\ cache' # cache)
               => /\ msgs[c.id].room \in DOMAIN cache'
                  /\ WrittenBack(cache'[msgs[c.id].room], c.arr)
                  /\ Len(c.arr) <= BATCH_SIZE]_vars

\* a write-back onto a full window: the oldest message was dropped, 50 remain
\* and the new message is the last
C31_Witness ==
  /\ "r1" \in DOMAIN cache
  /\ cache["r1"].src = "writeback"
  /\ Len(cache["r1"].messages) = BATCH_SIZE
  /\ cache["r1"].hasMore
  /\ cache["r1"].messages[1] = 2
  /\ cache["r1"].messages[BATCH_SIZE] = BATCH_SIZE + 1
  /\ cache["r1"].oldestTimestamp = Ts(2)

\* C32: a failure while generating, persisting or publishing the scripted
\* reply does not end the sender's chatMessage: the handler goes on to the
\* cache update with the sender's message, and the sender gets no `error`.
C32_ScriptedReplyOptional ==
  [][\A t \in chatT :
       t.pc \in {"ghostGen", "ghostSave", "ghostPublish"}
         => \/ t \in chatT'
            \/ /\ \E t2 \in chatT' : t2.n = t.n /\ t2.pc \in {"ghostSave", "ghostPublish", "cacheGet"}
               /\ evs'[t.s] = evs[t.s]]_vars

\* C33: a connected connection stays joined to the channel named by its
\* userId through every joinRoom and leaveRoom, and neither handler takes
\* that channel for the connection's current chat room.
C33_UserChannelKept ==
  [][/\ \A s \in Socks :
          (/\ Connected(s) /\ sock'[s].state = "connected"
           /\ sock[s].user \in Range(sock[s].rooms))
            => sock'[s].user \in Range(sock'[s].rooms)
     /\ \A s \in Socks, room \in Rooms :
          (JoinStart(s, room) \/ LeaveStart(s, room)) => CurrentRoom(s) # sock[s].user]_vars

\* C34: a connection attempt that authentication rejects (session refused or
\* user record absent) leaves the user's existing connections alone: when it
\* is rejected none of them has been sent duplicate_login for it and no
\* grace timer of it is running against any of them.
C34_RejectedAttemptHarmless ==
  [][\A t \in authT :
       (t.pc \in {"validate", "findUser"} /\ t \notin authT' /\ sock'[t.s].state = "closed")
         => /\ \A tm \in timers' : tm.by # t.s
            /\ \A e \in Socks \ {t.s} :
                 (Connected(e) /\ sock[e].user = sock[t.s].user) => "duplicate_login" \notin evs'[e]]_vars

\* C35: a joinRoom that ends with joinRoomError leaves the state as it was
\* before the call: the connection is still in the room it was in and not
\* in the target room, the caller is a participant of the target exactly
\* if it was one before, and every system message the call persisted has
\* also been published.
C35_FailedJoinRollsBack ==
  [][\A t \in joinT :
       (JoinFail(t) /\ bus' = bus)
         => /\ t.cur # "" => t.cur \in Range(sock'[t.s].rooms)
            /\ t.room \notin Range(sock'[t.s].rooms)
            /\ (t.room \in DOMAIN participants'
                  /\ sock'[t.s].user \in participants'[t.room]) = t.was
            /\ \A id \in {t.leaveId, t.joinId} \ {0} : id \in bus']_vars

\* C36: in every quiescent state (no handler running, no bus record waiting
\* or being handled) an existing latest-window cache entry holds exactly the
\* newest min(BATCH_SIZE, n) persisted messages of its room in ascending
\* order, so a read served from it equals a read of the durable store.
C36_QuiescentCacheMatchesStore ==
  (chatT = {} /\ fetchT = {} /\ consT = {} /\ bus = {})
    => \A r \in DOMAIN cache : Fresh(r, cache[r])

\* C38: only participants of a room act on its messages: a markMessagesAsRead
\* or messageReaction call changes a message or broadcasts into the room only
\* when its caller is a participant of the room the message belongs to, and
\* the message_requests consumer publishes a history page only for a user
\* who is a participant of the requested room.
C38_ParticipantsOnly ==
  [][\A t \in readT :
       /\ (t.kind = "mark" /\ (MarkUpdate(t) \/ MarkDone(t)) /\ <<readers, evs>>' # <<readers, evs>>
              /\ "error" \notin evs'[t.s] \ evs[t.s])
            => t.user \in participants[t.room]
       /\ (t.kind = "react" /\ ReactApply(t) /\ <<reactions, evs>>' # <<reactions, evs>>
              /\ "error" \notin evs'[t.s] \ evs[t.s])
            => t.user \in participants[t.room]
       /\ (t.kind = "req" /\ ReqSend(t) /\ resp' # resp)
            => t.user \in participants[t.room]]_vars

\* C37: a user who is not a participant of a password-protected room becomes
\* one only by the save of an HTTP join that presented the room's password;
\* no socket action adds the user.
C37_PasswordGuardsMembership ==
  [][\A r \in DOMAIN roomInfo, u \in Users :
       (roomInfo[r].password # "" /\ u \notin participants[r] /\ u \in participants'[r])
         => \E t \in httpT : /\ t.kind = "join" /\ t.user = u /\ t.room = r
                              /\ t.pw = roomInfo[r].password
                              /\ HttpJoinSave(t)]_vars

\* a cached list without the per-user flag
Unflagged(body) ==
  [i \in DOMAIN body.data |-> [f \in DOMAIN body.data[i] \ {"isCreator"} |-> body.data[i][f]]]

\* C39: when no change of the rooms or their participants and no list
\* request is in flight, every cached room list is the list of the current
\* rooms and participants, so no later GET /rooms answers from the state
\* before a completed change.
C39_ListCacheFresh ==
  (httpT = {} /\ joinT = {} /\ leaveT = {} /\ discT = {})
    => \A k \in DOMAIN listCache :
         Unflagged(listCache[k]) = Unflagged(ResponseData(k[6], "u1"))

\* C40: in every GET /rooms response each room's isCreator flag is true
\* exactly if the requesting user is that room's creator.
C40_IsCreatorPerUser ==
  \A r \in replies :
    (r.kind = "list" /\ r.status = 200)
      => \A i \in DOMAIN r.data.data :
           r.data.data[i].isCreator = (r.data.data[i].creator = r.user)

====
